---- MODULE Spec2Model ----
(***************************************************************************)
(* Valley of Ashes: the simulation core (src/units.py Battlefield, with    *)
(* src/map_data.py and src/config.py) as a state machine.                  *)
(*                                                                         *)
(* Units of measure.  The program computes with floats; the model computes *)
(* with integers:                                                          *)
(*   time      in 1/CS seconds  (CS = 100: 1.10 s is 110),                 *)
(*   hit points in 1/HP points  (HP = 100: 28 hp is 2800),                 *)
(*   positions in whole pixels, <<x, y>>; a real-valued result (a          *)
(*   normalised direction, a square root) is truncated toward zero, except *)
(*   in a move, whose displacement is rounded away from the start.         *)
(* Comparisons the program makes on distances are made here on squared     *)
(* distances, which are exact.                                             *)
(*                                                                         *)
(* Python's None is NoId (0) for a unit id, "NONE" for a faction or a      *)
(* structure id, and -1 for the dynamic attribute _wp_index.               *)
(***************************************************************************)
EXTENDS Integers, Sequences, FiniteSets, TLC

CS == 100
HP == 100

NoId == 0
NoPos == <<-1, -1>>

Factions == {"PLAYER", "ENEMY"}

(***************************************************************************)
(* Arithmetic helpers                                                      *)
(***************************************************************************)
Abs(a) == IF a < 0 THEN -a ELSE a
Min(a, b) == IF a <= b THEN a ELSE b
Max(a, b) == IF a >= b THEN a ELSE b

\* a / b truncated toward zero (b > 0): the integer part of the float quotient.
TruncDiv(a, b) == IF a >= 0 THEN a \div b ELSE -((-a) \div b)

\* math.ceil(a / b) for a >= 0, b > 0.
CeilDiv(a, b) == (a + b - 1) \div b

RECURSIVE Gcd(_, _)
Gcd(a, b) == IF b = 0 THEN a ELSE Gcd(b, a % b)

\* a * b / c (a, b >= 0, c > 0), reduced first so that the product stays in range.
MulDiv(a, b, c) ==
    LET g1 == Gcd(a, c)
        a1 == a \div g1
        c1 == c \div g1
        g2 == Gcd(b, c1)
    IN  (a1 * (b \div g2)) \div (c1 \div g2)

RECURSIVE ISqrtIter(_, _, _)
ISqrtIter(n, lo, hi) ==
    IF lo >= hi THEN lo
    ELSE LET mid == (lo + hi + 1) \div 2
         IN  IF mid * mid <= n THEN ISqrtIter(n, mid, hi) ELSE ISqrtIter(n, lo, mid - 1)

\* floor(sqrt(n)) for 0 <= n < 40000^2.
ISqrt(n) == ISqrtIter(n, 0, 40000)

Dist2(p, q) == (p[1] - q[1]) * (p[1] - q[1]) + (p[2] - q[2]) * (p[2] - q[2])

\* math.hypot(dx, dy), truncated.
Hypot(dx, dy) == ISqrt(dx * dx + dy * dy)

RECURSIVE SeqSum(_)
SeqSum(s) == IF s = <<>> THEN 0 ELSE Head(s) + SeqSum(Tail(s))

\* The elements of a finite set of integers in ascending order.
RECURSIVE SortedSeq(_)
SortedSeq(S) ==
    IF S = {} THEN <<>>
    ELSE LET m == CHOOSE x \in S : \A y \in S : x <= y
         IN  <<m>> \o SortedSeq(S \ {m})

\* pygame.Rect as [x, y, w, h]; collidepoint is half-open on the right and bottom.
Rect(x, y, w, h) == [x |-> x, y |-> y, w |-> w, h |-> h]
CollidePoint(r, p) ==
    /\ r.x <= p[1] /\ p[1] < r.x + r.w
    /\ r.y <= p[2] /\ p[2] < r.y + r.h
RectCenter(r) == <<r.x + r.w \div 2, r.y + r.h \div 2>>

(***************************************************************************)
(* config.py                                                               *)
(***************************************************************************)
MAP_W == 3000
MAP_H == 4200
mirror_y(y) == MAP_H - y
mirrored_position(p) == <<p[1], mirror_y(p[2])>>

CLIFF_BELT_WIDTH == 120
RIFT_TOP == 1980
RIFT_BOTTOM == 2220
LANE_WIDTH == 320
X_W == 750
X_C == 1500
X_E == 2250
LANE_PROXIMITY_THRESHOLD_PX == LANE_WIDTH \div 2
STUCK_LANE_TIMEOUT_S == 10 * CS

\* (x0, y0, x1, y1)
CROSSINGS ==
    << <<540, RIFT_TOP, 960, RIFT_BOTTOM>>,
       <<1290, RIFT_TOP, 1710, RIFT_BOTTOM>>,
       <<2040, RIFT_TOP, 2460, RIFT_BOTTOM>> >>

Lanes == <<"WEST", "CENTER", "EAST">>
LaneNames == {"WEST", "CENTER", "EAST"}

LANE_WAYPOINTS(lane) ==
    CASE lane = "WEST" ->
           << <<750, 3600>>, <<720, 3100>>, <<700, 2650>>, <<750, 2300>>, <<750, 2100>>,
              <<750, 1900>>, <<800, 1550>>, <<820, 1100>>, <<750, 600>>, <<750, 420>>,
              <<1100, 300>>, <<1500, 210>> >>
      [] lane = "CENTER" ->
           << <<1500, 3600>>, <<1500, 3150>>, <<1500, 2700>>, <<1500, 2350>>, <<1500, 2100>>,
              <<1500, 1850>>, <<1500, 1500>>, <<1500, 1050>>, <<1500, 600>>, <<1500, 420>>,
              <<1500, 210>> >>
      [] lane = "EAST" ->
           << <<2250, 3600>>, <<2280, 3100>>, <<2300, 2650>>, <<2250, 2300>>, <<2250, 2100>>,
              <<2250, 1900>>, <<2200, 1550>>, <<2180, 1100>>, <<2250, 600>>, <<2250, 420>>,
              <<1900, 300>>, <<1500, 210>> >>

S_KEEP_RECT == Rect(1200, 3850, 600, 270)
N_KEEP_RECT == Rect(1200, 80, 600, 270)
S_BOSS_SPAWN == <<1500, 3990>>
N_BOSS_SPAWN == <<1500, 210>>
BOSS_SPAWN(faction) == IF faction = "PLAYER" THEN S_BOSS_SPAWN ELSE N_BOSS_SPAWN
KeepRect(faction) == IF faction = "PLAYER" THEN S_KEEP_RECT ELSE N_KEEP_RECT

GY_SPAWN_RADIUS == 80
GY_CENTER_SPAWN_RADIUS == 90
GY_CAPTURE_RADIUS == 220
GY_CENTER_CAPTURE_RADIUS == 260
GY_CAPTURE_TIME_HOME_FORWARD == 12 * CS
GY_CAPTURE_TIME_CENTER == 16 * CS
GY_CAPTURE_DECAY_RATE == 2
GY_RESPAWN_INTERVAL == 30 * CS

TOWER_CORE_IMPASSABLE_RADIUS_PX == 22
TOWER_CAPTURE_RADIUS_PX == 120
TOWER_CAPTURE_DURATION_S == 180 * CS
ARCHERS_PER_TOWER == 6

BUNKER_WALL_THICKNESS == 18
BUNKER_GATE_WIDTH == 260
BUNKER_GATE_CENTERLINES == <<X_W, X_C, X_E>>
S_BUNKER_RECT == Rect(600, 2860, 1800, 320)
S_BUNKER_CENTER == <<1500, 3020>>
N_BUNKER_RECT == Rect(S_BUNKER_RECT.x, mirror_y(S_BUNKER_RECT.y + S_BUNKER_RECT.h),
                      S_BUNKER_RECT.w, S_BUNKER_RECT.h)
N_BUNKER_CENTER == <<1500, mirror_y(S_BUNKER_CENTER[2])>>

BOSS_BASE_MAX_HP == 5000 * HP
BOSS_BASE_DAMAGE == 60 * HP
BOSS_LEASH_RADIUS == 180
\* BOSS_HP_PER_TOWER_MULT = 0.8, in tenths.
BOSS_HP_PER_TOWER_MULT_X10 == 8

STARTING_GOLD_PLAYER == 120
STARTING_GOLD_ENEMY == 120

REGEN_OUT_OF_COMBAT_DELAY_S == 5 * CS
REGEN_INTERVAL_S == 5 * CS
\* REGEN_PERCENT = 0.01, in percent.
REGEN_PERCENT_X100 == 1

UNIT_MAX_RESPAWNS == 10

SEPARATION_RADIUS_PX == 14
\* SEPARATION_PUSH_LIMIT = 0.35, in percent.
SEPARATION_PUSH_LIMIT_X100 == 35
SPATIAL_HASH_CELL_SIZE == 180

\* The rows of UNIT_STATS that src/config.py holds.
UNIT_STATS_SRC(unit_type) ==
    CASE unit_type = "GRUNT" ->
           [max_hp |-> 28 * HP, damage |-> 3 * HP, attack_range_px |-> 18,
            aggro_range_px |-> 140, attack_cooldown_s |-> 110, move_speed_px_s |-> 72,
            respawn_delay_s |-> 10 * CS, cost |-> 10, gold_reward |-> 3]
      [] unit_type = "LIEUTENANT" ->
           [max_hp |-> 70 * HP, damage |-> 8 * HP, attack_range_px |-> 22,
            aggro_range_px |-> 160, attack_cooldown_s |-> 125, move_speed_px_s |-> 66,
            respawn_delay_s |-> 16 * CS, cost |-> 45, gold_reward |-> 10]
      [] unit_type = "CAVALRY" ->
           [max_hp |-> 55 * HP, damage |-> 10 * HP, attack_range_px |-> 20,
            aggro_range_px |-> 170, attack_cooldown_s |-> 135, move_speed_px_s |-> 108,
            respawn_delay_s |-> 20 * CS, cost |-> 70, gold_reward |-> 12]
      [] unit_type = "TOWER_ARCHER" ->
           [max_hp |-> 40 * HP, damage |-> 6 * HP, attack_range_px |-> 260,
            aggro_range_px |-> 300, attack_cooldown_s |-> 110, move_speed_px_s |-> 0,
            respawn_delay_s |-> 0, cost |-> 0, gold_reward |-> 5]
      [] unit_type = "CAPTAIN" ->
           [max_hp |-> 900 * HP, damage |-> 26 * HP, attack_range_px |-> 34,
            aggro_range_px |-> 220, attack_cooldown_s |-> 120, move_speed_px_s |-> 0,
            respawn_delay_s |-> 0, cost |-> 0, gold_reward |-> 75]
      [] unit_type = "BOSS" ->
           [max_hp |-> BOSS_BASE_MAX_HP, damage |-> BOSS_BASE_DAMAGE, attack_range_px |-> 40,
            aggro_range_px |-> 320, attack_cooldown_s |-> 135, move_speed_px_s |-> 0,
            respawn_delay_s |-> 0, cost |-> 0, gold_reward |-> 0]

(***************************************************************************)
(* Configuration that units.py reads and src/config.py does not hold: the  *)
(* commander, healer and bulwark rows of UNIT_STATS, the purchasable       *)
(* "ARCHER" row, UNIT_RESPAWNS and the recall, healer and bulwark          *)
(* constants.  Their values are not in the repository's files; the ones    *)
(* below are stand-ins of the same kind as their neighbours.               *)
(***************************************************************************)
COMMANDER_BASE_MAX_HP == 1200 * HP
COMMANDER_BASE_DAMAGE == 20 * HP
RECALL_COOLDOWN_S == 60 * CS
RECALL_CHANNEL_DURATION_S == 3 * CS
\* recall_cooldowns starts at -999.0
RECALL_NEVER == -999 * CS
HEALER_HEAL_COOLDOWN_S == 4 * CS
HEALER_HEAL_RADIUS_PX == 120
\* HEALER_HEAL_PERCENT = 0.10, in percent.
HEALER_HEAL_PERCENT_X100 == 10
HEALER_HEAL_ANIM_DURATION_S == 60
BULWARK_TAUNT_COOLDOWN_S == 6 * CS
BULWARK_TAUNT_TARGETS == 3

UNIT_STATS_EXT(unit_type) ==
    CASE unit_type = "COMMANDER" ->
           [max_hp |-> COMMANDER_BASE_MAX_HP, damage |-> COMMANDER_BASE_DAMAGE,
            attack_range_px |-> 30, aggro_range_px |-> 220, attack_cooldown_s |-> 120,
            move_speed_px_s |-> 60, respawn_delay_s |-> 0, cost |-> 0, gold_reward |-> 40]
      [] unit_type = "HEALER" ->
           [max_hp |-> 30 * HP, damage |-> 2 * HP, attack_range_px |-> 18,
            aggro_range_px |-> 140, attack_cooldown_s |-> 120, move_speed_px_s |-> 70,
            respawn_delay_s |-> 12 * CS, cost |-> 40, gold_reward |-> 8]
      [] unit_type = "BULWARK" ->
           [max_hp |-> 120 * HP, damage |-> 4 * HP, attack_range_px |-> 18,
            aggro_range_px |-> 150, attack_cooldown_s |-> 140, move_speed_px_s |-> 60,
            respawn_delay_s |-> 20 * CS, cost |-> 60, gold_reward |-> 12]
      [] unit_type = "ARCHER" ->
           [max_hp |-> 40 * HP, damage |-> 6 * HP, attack_range_px |-> 260,
            aggro_range_px |-> 300, attack_cooldown_s |-> 110, move_speed_px_s |-> 0,
            respawn_delay_s |-> 0, cost |-> 25, gold_reward |-> 5]

SrcUnitTypes == {"GRUNT", "LIEUTENANT", "CAVALRY", "TOWER_ARCHER", "CAPTAIN", "BOSS"}
UNIT_STATS(unit_type) ==
    IF unit_type \in SrcUnitTypes THEN UNIT_STATS_SRC(unit_type) ELSE UNIT_STATS_EXT(unit_type)

\* config.UNIT_RESPAWNS.get(unit_type, 0): the lane units respawn, the defenders do not.
UNIT_RESPAWNS(unit_type) ==
    IF unit_type \in {"GRUNT", "LIEUTENANT", "CAVALRY", "HEALER", "BULWARK"}
    THEN UNIT_MAX_RESPAWNS ELSE 0

(***************************************************************************)
(* map_data.py.  Battlefield takes its MapGeometry as a constructor        *)
(* argument; the model's map is the program's map cut down to one tower    *)
(* per faction (the west rear towers), the two bunkers, and three          *)
(* graveyards (the two home graveyards and the center one).                *)
(***************************************************************************)
TOWER_POSITIONS_SOUTH == << [id |-> "T_S_W_REAR", pos |-> <<950, 3300>>] >>

\* config.build_north_towers: the same towers mirrored, "S" replaced by "N" in the id.
NorthId(id) == IF id = "T_S_W_REAR" THEN "T_N_W_REAR" ELSE id
build_north_towers ==
    [i \in 1..Len(TOWER_POSITIONS_SOUTH) |->
        [id |-> NorthId(TOWER_POSITIONS_SOUTH[i].id),
         pos |-> <<TOWER_POSITIONS_SOUTH[i].pos[1], mirror_y(TOWER_POSITIONS_SOUTH[i].pos[2])>>]]

Tower(tower_id, faction_owner, center) ==
    [tower_id |-> tower_id, faction_owner |-> faction_owner, center |-> center,
     core_radius |-> TOWER_CORE_IMPASSABLE_RADIUS_PX,
     capture_radius |-> TOWER_CAPTURE_RADIUS_PX,
     state |-> "STANDING", archers_alive |-> ARCHERS_PER_TOWER,
     occupy_timer |-> 0, contested |-> FALSE]

build_towers ==
    [i \in 1..Len(TOWER_POSITIONS_SOUTH) |->
        Tower(TOWER_POSITIONS_SOUTH[i].id, "PLAYER", TOWER_POSITIONS_SOUTH[i].pos)]
    \o
    [i \in 1..Len(build_north_towers) |->
        Tower(build_north_towers[i].id, "ENEMY", build_north_towers[i].pos)]

destroy_tower(tower) ==
    [tower EXCEPT !.state = "DESTROYED", !.archers_alive = 0,
                  !.occupy_timer = 0, !.contested = FALSE]

\* build_bunkers.build_wall_segments: the gates cut out of the two horizontal walls.
Gates(rect) ==
    LET half == BUNKER_GATE_WIDTH \div 2
        gate(i) == <<Max(rect.x, BUNKER_GATE_CENTERLINES[i] - half),
                     Min(rect.x + rect.w, BUNKER_GATE_CENTERLINES[i] + half)>>
    IN  SelectSeq([i \in 1..Len(BUNKER_GATE_CENTERLINES) |-> gate(i)],
                  LAMBDA g : g[2] > g[1])

RECURSIVE horizontal_segments(_, _, _, _)
horizontal_segments(rect, y, gates, cursor) ==
    IF gates = <<>>
    THEN IF cursor < rect.x + rect.w
         THEN << Rect(cursor, y, rect.x + rect.w - cursor, BUNKER_WALL_THICKNESS) >>
         ELSE <<>>
    ELSE LET g == Head(gates)
             seg == IF g[1] > cursor
                    THEN << Rect(cursor, y, g[1] - cursor, BUNKER_WALL_THICKNESS) >>
                    ELSE <<>>
         IN  seg \o horizontal_segments(rect, y, Tail(gates), Max(cursor, g[2]))

build_wall_segments(rect) ==
    << Rect(rect.x, rect.y, BUNKER_WALL_THICKNESS, rect.h),
       Rect(rect.x + rect.w - BUNKER_WALL_THICKNESS, rect.y, BUNKER_WALL_THICKNESS, rect.h) >>
    \o horizontal_segments(rect, rect.y, Gates(rect), rect.x)
    \o horizontal_segments(rect, rect.y + rect.h - BUNKER_WALL_THICKNESS, Gates(rect), rect.x)

Bunker(bunker_id, faction_owner, rect, center) ==
    [bunker_id |-> bunker_id, faction_owner |-> faction_owner, rect |-> rect,
     center |-> center, wall_rects |-> build_wall_segments(rect),
     state |-> "STANDING", captain_alive |-> TRUE]

build_bunkers ==
    << Bunker("S_BUNKER", "PLAYER", S_BUNKER_RECT, S_BUNKER_CENTER),
       Bunker("N_BUNKER", "ENEMY", N_BUNKER_RECT, N_BUNKER_CENTER) >>

\* Fault seed: the walls of a destroyed bunker are left standing.
destroy_bunker_keeping_walls(bunker) ==
    [bunker EXCEPT !.state = "DESTROYED", !.captain_alive = FALSE]

destroy_bunker(bunker) ==
    [bunker EXCEPT !.state = "DESTROYED", !.captain_alive = FALSE, !.wall_rects = <<>>]

\* The mutable fields of a graveyard that units.py reads and writes and map_data.py
\* does not declare: the owner starts as the starting owner, the timers at zero, the
\* FIFO queue empty.
GraveyardRuntime(gy_id, starting_owner) ==
    [owner |-> starting_owner,
     capture_timer |-> 0,
     capture_time_required |-> IF gy_id = "GY_CENTER" THEN GY_CAPTURE_TIME_CENTER
                               ELSE GY_CAPTURE_TIME_HOME_FORWARD,
     waiting_units |-> <<>>,
     respawn_timer |-> 0,
     respawn_interval |-> 0]

\* Graveyard: the declared fields, as build_graveyards sets them, and the mutable ones.
Graveyard(gy_id, pos, starting_owner) ==
    [gy_id |-> gy_id, pos |-> pos,
     spawn_radius |-> IF gy_id = "GY_CENTER" THEN GY_CENTER_SPAWN_RADIUS ELSE GY_SPAWN_RADIUS,
     capture_radius |-> IF gy_id = "GY_CENTER" THEN GY_CENTER_CAPTURE_RADIUS
                        ELSE GY_CAPTURE_RADIUS,
     starting_owner |-> starting_owner]
    @@ GraveyardRuntime(gy_id, starting_owner)

GY_S_HOME == <<1500, 3400>>
GY_N_HOME == <<1500, 800>>
GY_CENTER == <<1500, 2100>>

build_graveyards ==
    << Graveyard("GY_S_HOME", GY_S_HOME, "PLAYER"),
       Graveyard("GY_CENTER", GY_CENTER, "NEUTRAL"),
       Graveyard("GY_N_HOME", GY_N_HOME, "ENEMY") >>

is_inside_crossing(point) ==
    \E i \in 1..Len(CROSSINGS) :
        /\ CROSSINGS[i][1] <= point[1] /\ point[1] <= CROSSINGS[i][3]
        /\ CROSSINGS[i][2] <= point[2] /\ point[2] <= CROSSINGS[i][4]

\* is_point_passable(point, geom), geom being the towers and the bunkers of W.
is_point_passable(point, W) ==
    /\ ~(point[1] < CLIFF_BELT_WIDTH \/ point[1] > MAP_W - CLIFF_BELT_WIDTH)
    /\ ~(RIFT_TOP <= point[2] /\ point[2] <= RIFT_BOTTOM /\ ~is_inside_crossing(point))
    /\ \A i \in 1..Len(W.towers) :
          W.towers[i].state = "DESTROYED"
          \/ Dist2(point, W.towers[i].center) > W.towers[i].core_radius * W.towers[i].core_radius
    /\ \A i \in 1..Len(W.bunkers) :
          W.bunkers[i].state # "DESTROYED" =>
              \A k \in 1..Len(W.bunkers[i].wall_rects) :
                  ~CollidePoint(W.bunkers[i].wall_rects[k], point)

(***************************************************************************)
(* units.py: Unit                                                          *)
(***************************************************************************)
is_alive(unit) == unit.state \notin {"DEAD", "RESPAWNING"}

_enemy_faction(faction) == IF faction = "PLAYER" THEN "ENEMY" ELSE "PLAYER"

_lane_waypoints(faction, lane) ==
    LET for_faction(points) ==
            IF faction = "PLAYER" THEN points
            ELSE [i \in 1..Len(points) |-> mirrored_position(points[i])]
    IN  for_faction(LANE_WAYPOINTS(lane))

\* The index (0-based) _reset_waypoint_progress picks among the waypoints of the
\* unit's lane: the nearest of those ahead of the unit, or of all when none is ahead.
NearestWaypointAhead(unit, waypoints) ==
    LET direction == IF unit.faction = "ENEMY" THEN 1 ELSE -1
        is_forward(idx) ==
            (waypoints[idx + 1][2] - unit.pos[2]) * direction >= -(LANE_WIDTH \div 4)
        all == 0..(Len(waypoints) - 1)
        d(idx) == Dist2(waypoints[idx + 1], unit.pos)
        nearest(candidates) ==
            CHOOSE best \in candidates :
                \A j \in candidates : d(best) < d(j) \/ (d(best) = d(j) /\ best <= j)
        among(forward_indices) == nearest(IF forward_indices # {} THEN forward_indices ELSE all)
    IN  among({idx \in all : is_forward(idx)})

\* _reset_waypoint_progress: the unit it leaves (unit._wp_index is 0-based).
_reset_waypoint_progress(unit) ==
    IF unit.lane \notin LaneNames THEN unit
    ELSE [unit EXCEPT !.wp_index =
             NearestWaypointAhead(unit, _lane_waypoints(unit.faction, unit.lane))]

\* The position spawn_unit gives a unit created without one.
DefaultSpawnPos(faction, lane) ==
    IF lane \in LaneNames THEN _lane_waypoints(faction, lane)[1]
    ELSE IF faction = "PLAYER" THEN GY_S_HOME ELSE GY_N_HOME

NewUnit(uid, faction, unit_type, lane, pos) ==
    LET unit(stats, max_respawns) ==
                [unit_id |-> uid, faction |-> faction, unit_type |-> unit_type, pos |-> pos,
                 hp |-> stats.max_hp, max_hp |-> stats.max_hp, damage |-> stats.damage,
                 attack_range_px |-> stats.attack_range_px,
                 aggro_range_px |-> stats.aggro_range_px,
                 attack_cooldown_s |-> stats.attack_cooldown_s,
                 attack_timer_s |-> stats.attack_cooldown_s,
                 move_speed_px_s |-> stats.move_speed_px_s,
                 state |-> "MARCHING", lane |-> lane, target_id |-> NoId,
                 leash_anchor |-> pos, leash_radius_px |-> 0,
                 last_hit_by_faction |-> "NONE",
                 respawn_delay_s |-> stats.respawn_delay_s,
                 gold_reward |-> stats.gold_reward,
                 respawns |-> max_respawns > 0,
                 remaining_respawns |-> IF max_respawns > 0 THEN max_respawns ELSE 0,
                 structure_id |-> "NONE", base_max_hp |-> 0, base_damage |-> 0,
                 out_of_combat_time_s |-> 0, regen_timer_s |-> 0, time_off_lane_s |-> 0,
                 heal_timer_s |-> 0, heal_anim_timer_s |-> 0, taunt_timer_s |-> 0,
                 recall_state |-> "IDLE", wp_index |-> -1]
    IN  _reset_waypoint_progress(unit(UNIT_STATS(unit_type), UNIT_RESPAWNS(unit_type)))

(***************************************************************************)
(* units.py: Battlefield.  W is the whole battlefield (its fields and the  *)
(* map it holds); an operator that models a method takes W and yields the  *)
(* W the method leaves.                                                    *)
(***************************************************************************)
NoChannel == [active |-> FALSE, remaining |-> 0, units |-> <<>>]

\* Fault seed: the record of a DEAD unit, if there is one, is recycled for the new
\* unit, which takes over its id.
spawn_unit_recycling(W, faction, unit_type, lane, pos) ==
    LET p == IF pos = NoPos THEN DefaultSpawnPos(faction, lane) ELSE pos
        dead == {i \in 1..Len(W.units) : W.units[i].state = "DEAD"}
        n == Len(W.units)
    IN  IF dead # {}
        THEN LET uid == CHOOSE i \in dead : \A j \in dead : i <= j
             IN  [W EXCEPT !.units[uid] = NewUnit(uid, faction, unit_type, lane, p)]
        ELSE [W EXCEPT !.next_unit_id = W.next_unit_id + 1,
                       !.units = [i \in 1..(n + 1) |->
                                     IF i <= n THEN W.units[i]
                                     ELSE NewUnit(W.next_unit_id, faction, unit_type, lane, p)]]

\* spawn_unit: the new unit gets the next id and is appended to the roster (the
\* roster one longer, every earlier entry as it was, the new unit last).
spawn_unit(W, faction, unit_type, lane, pos) ==
    LET p == IF pos = NoPos THEN DefaultSpawnPos(faction, lane) ELSE pos
        uid == W.next_unit_id
        n == Len(W.units)
    IN  [W EXCEPT !.next_unit_id = uid + 1,
                  !.units = [i \in 1..(n + 1) |->
                                IF i <= n THEN W.units[i]
                                ELSE NewUnit(uid, faction, unit_type, lane, p)]]

TowerIndex(W, tower_id) == CHOOSE i \in 1..Len(W.towers) : W.towers[i].tower_id = tower_id

\* math.hypot(rect.width / 2, rect.height / 2)
_elite_aggro_radius(rect) == Hypot(rect.w \div 2, rect.h \div 2)

_configure_elite_unit_zone(unit, rect) ==
    [unit EXCEPT !.aggro_range_px = _elite_aggro_radius(rect)]

TOWER_ARCHER_OFFSETS ==
    << <<-18, -10>>, <<18, -10>>, <<-18, 10>>, <<18, 10>>, <<0, -18>>, <<0, 18>> >>

_next_archer_position(W, tower) ==
    LET living_positions ==
            {W.units[i].pos : i \in {j \in 1..Len(W.units) :
                /\ is_alive(W.units[j])
                /\ W.units[j].unit_type = "TOWER_ARCHER"
                /\ W.units[j].structure_id = tower.tower_id}}
        candidate(k) == <<tower.center[1] + TOWER_ARCHER_OFFSETS[k][1],
                          tower.center[2] + TOWER_ARCHER_OFFSETS[k][2]>>
        free == {k \in 1..Len(TOWER_ARCHER_OFFSETS) : candidate(k) \notin living_positions}
    IN  IF free = {} THEN tower.center
        ELSE candidate(CHOOSE k \in free : \A m \in free : k <= m)

\* Fault seed: the archer is posted, the tower's state is left to the next tick.
_spawn_archer_for_tower_unmanned(W, ti, pos) ==
    LET tower == W.towers[ti]
        uid == W.next_unit_id
        archer(unit) == [unit EXCEPT
                            !.state = "DEFENDING",
                            !.leash_anchor = tower.center,
                            !.leash_radius_px = TOWER_CAPTURE_RADIUS_PX,
                            !.respawns = FALSE,
                            !.remaining_respawns = 0,
                            !.structure_id = tower.tower_id]
        t1 == [tower EXCEPT !.archers_alive = Min(ARCHERS_PER_TOWER, tower.archers_alive + 1)]
        garrisoned(W1) == [W1 EXCEPT !.units[uid] = archer(W1.units[uid]), !.towers[ti] = t1]
    IN  garrisoned(spawn_unit(W, tower.faction_owner, "TOWER_ARCHER", "NONE",
                              IF pos = NoPos THEN _next_archer_position(W, tower) ELSE pos))

\* _spawn_archer_for_tower(tower, pos), the tower given by its index in geom.towers.
_spawn_archer_for_tower(W, ti, pos) ==
    LET tower == W.towers[ti]
        uid == W.next_unit_id
        archer(unit) == [unit EXCEPT
                            !.state = "DEFENDING",
                            !.leash_anchor = tower.center,
                            !.leash_radius_px = TOWER_CAPTURE_RADIUS_PX,
                            !.respawns = FALSE,
                            !.remaining_respawns = 0,
                            !.structure_id = tower.tower_id]
        t1 == [tower EXCEPT !.archers_alive = Min(ARCHERS_PER_TOWER, tower.archers_alive + 1)]
        t2 == IF t1.state = "VULNERABLE"
              THEN [t1 EXCEPT !.state = "STANDING", !.occupy_timer = 0]
              ELSE t1
        garrisoned(W1) == [W1 EXCEPT !.units[uid] = archer(W1.units[uid]), !.towers[ti] = t2]
    IN  garrisoned(spawn_unit(W, tower.faction_owner, "TOWER_ARCHER", "NONE",
                              IF pos = NoPos THEN _next_archer_position(W, tower) ELSE pos))

\* Ratio-preserving rescale: max(1, min(new_max, (hp / old_max) * new_max)).
RescaledHp(hp, old_max, new_max) ==
    LET scaled == IF old_max > 0
                  THEN IF hp >= 0 THEN MulDiv(hp, new_max, old_max)
                       ELSE -MulDiv(-hp, new_max, old_max)
                  ELSE new_max
    IN  Max(1 * HP, Min(new_max, scaled))

\* Fault seed: the rescale keeps the hp as it is, cut to the new maximum.
ScaledUnitKeepingHp(unit, mult10) ==
    LET new_max == IF unit.base_max_hp # 0 THEN (unit.base_max_hp * mult10) \div 10
                   ELSE unit.max_hp
        new_dmg == IF unit.base_damage # 0 THEN (unit.base_damage * mult10) \div 10
                   ELSE unit.damage
    IN  [unit EXCEPT !.max_hp = new_max, !.damage = new_dmg,
                     !.hp = Max(1 * HP, Min(new_max, unit.hp))]

\* The body shared by _update_boss_scaling and _update_commander_scaling; mult in tenths.
ScaledUnit(unit, mult10) ==
    LET new_max == IF unit.base_max_hp # 0 THEN (unit.base_max_hp * mult10) \div 10
                   ELSE unit.max_hp
        new_dmg == IF unit.base_damage # 0 THEN (unit.base_damage * mult10) \div 10
                   ELSE unit.damage
    IN  [unit EXCEPT !.max_hp = new_max, !.damage = new_dmg,
                     !.hp = RescaledHp(unit.hp, unit.max_hp, new_max)]

\* The history variable scale_log records each rescale: the unit, and its hp and
\* max_hp on entry and on exit.
LogRescale(W, ids, W1) ==
    [W1 EXCEPT !.scale_log =
        @ \o [k \in 1..Len(ids) |->
                 [unit_id |-> ids[k],
                  hp |-> W.units[ids[k]].hp, max_hp |-> W.units[ids[k]].max_hp,
                  new_hp |-> W1.units[ids[k]].hp, new_max_hp |-> W1.units[ids[k]].max_hp]]]

_update_commander_scaling(W, faction, mult10) ==
    LET commanders == {W.commanders_by_tower[t] : t \in DOMAIN W.commanders_by_tower}
        hit(i) == /\ i \in commanders
                  /\ W.units[i].faction = faction
                  /\ is_alive(W.units[i])
    IN  LogRescale(W, SortedSeq({i \in 1..Len(W.units) : hit(i)}),
            [W EXCEPT !.units = [i \in 1..Len(W.units) |->
                                    IF hit(i) THEN ScaledUnit(W.units[i], mult10)
                                    ELSE W.units[i]]])

StandingTowers(W, faction) ==
    Cardinality({i \in 1..Len(W.towers) :
        W.towers[i].faction_owner = faction /\ W.towers[i].state # "DESTROYED"})

_update_boss_scaling(W, faction) ==
    LET boss_id == W.boss_units[faction]
    IN  IF boss_id = NoId THEN W
        ELSE LET mult10 == 10 + BOSS_HP_PER_TOWER_MULT_X10 * StandingTowers(W, faction)
                 W1 == LogRescale(W, <<boss_id>>,
                           [W EXCEPT !.units[boss_id] = ScaledUnit(W.units[boss_id], mult10)])
             IN  _update_commander_scaling(W1, faction, mult10)

_home_graveyard(W, faction) ==
    LET target_id == IF faction = "PLAYER" THEN "GY_S_HOME" ELSE "GY_N_HOME"
        found == {g \in 1..Len(W.graveyards) : W.graveyards[g].gy_id = target_id}
    IN  IF found = {} THEN 0 ELSE CHOOSE g \in found : \A h \in found : g <= h

\* Fault seed: the nearest graveyard of all, whoever owns it.
_nearest_graveyard_of_any_owner(W, faction, pos) ==
    LET all == 1..Len(W.graveyards)
        d2(g) == Dist2(W.graveyards[g].pos, pos)
    IN  CHOOSE best \in all :
            \A g \in all : d2(best) < d2(g) \/ (d2(best) = d2(g) /\ best <= g)

\* _nearest_graveyard: the index of the graveyard in geom.graveyards, 0 for None.
_nearest_graveyard(W, faction, pos) ==
    LET owned == {g \in 1..Len(W.graveyards) : W.graveyards[g].owner = faction}
        d2(g) == Dist2(W.graveyards[g].pos, pos)
    IN  IF owned = {} THEN _home_graveyard(W, faction)
        ELSE CHOOSE best \in owned :
                 \A g \in owned : d2(best) < d2(g) \/ (d2(best) = d2(g) /\ best <= g)

_update_graveyard_respawn_progress(gy) ==
    IF gy.waiting_units = <<>>
    THEN [gy EXCEPT !.respawn_timer = 0, !.respawn_interval = 0]
    ELSE [gy EXCEPT !.respawn_interval = GY_RESPAWN_INTERVAL,
                    !.respawn_timer = Min(gy.respawn_timer, GY_RESPAWN_INTERVAL)]

(***************************************************************************)
(* _on_unit_death, in the order of its parts.                              *)
(***************************************************************************)
\* Fault seed: the dying unit is appended to the queue twice.
DeathRouteQueuedTwice(W, id) ==
    LET unit == W.units[id]
        g == _nearest_graveyard(W, unit.faction, unit.pos)
    IN  IF unit.respawns /\ unit.remaining_respawns > 0 /\ g # 0
        THEN [W EXCEPT !.units[id].state = "RESPAWNING",
                       !.graveyards[g].waiting_units = Append(Append(@, id), id),
                       !.graveyards[g].respawn_interval = GY_RESPAWN_INTERVAL]
        ELSE [W EXCEPT !.units[id].state = "DEAD", !.units[id].remaining_respawns = 0]

\* Fault seed: a unit that respawns is queued whatever respawns it has left.
DeathRouteWhileEligible(W, id) ==
    LET unit == W.units[id]
        g == _nearest_graveyard(W, unit.faction, unit.pos)
        queued(gy) == [gy EXCEPT !.respawn_timer = IF gy.waiting_units = <<>> THEN 0 ELSE @,
                                 !.waiting_units = Append(gy.waiting_units, id)]
    IN  IF unit.respawns /\ g # 0
        THEN [W EXCEPT !.units[id].state = "RESPAWNING",
                       !.graveyards[g] =
                           _update_graveyard_respawn_progress(queued(W.graveyards[g]))]
        ELSE [W EXCEPT !.units[id].state = "DEAD", !.units[id].remaining_respawns = 0]

\* Respawn or permanent death.
DeathRoute(W, id) ==
    LET unit == W.units[id]
        \* The timer of an empty queue restarts; the unit joins the queue.
        queued(gy) == [gy EXCEPT !.respawn_timer = IF gy.waiting_units = <<>> THEN 0 ELSE @,
                                 !.waiting_units = Append(gy.waiting_units, id)]
        routed(g) ==
            IF g # 0
            THEN [W EXCEPT !.units[id].state = "RESPAWNING",
                           !.graveyards[g] =
                               _update_graveyard_respawn_progress(queued(W.graveyards[g]))]
            ELSE [W EXCEPT !.units[id].state = "DEAD"]
    IN  IF unit.respawns /\ unit.remaining_respawns > 0
        THEN routed(_nearest_graveyard(W, unit.faction, unit.pos))
        ELSE [W EXCEPT !.units[id].state = "DEAD", !.units[id].remaining_respawns = 0]

\* Fault seed: the tower turns VULNERABLE when its last archer falls, the count is
\* left as it was.
DeathTowerBookkeepingUncounted(W, id) ==
    LET unit == W.units[id]
        found == {i \in 1..Len(W.towers) : W.towers[i].tower_id = unit.structure_id}
    IN  IF unit.unit_type = "TOWER_ARCHER" /\ unit.structure_id # "NONE" /\ found # {}
        THEN LET ti == CHOOSE i \in found : \A j \in found : i <= j
                 t1 == W.towers[ti]
                 t2 == IF t1.archers_alive = 1 /\ t1.state = "STANDING"
                       THEN [t1 EXCEPT !.state = "VULNERABLE"] ELSE t1
             IN  [W EXCEPT !.towers[ti] = t2]
        ELSE W

\* Structure bookkeeping: the tower of a dead tower archer.
DeathTowerBookkeeping(W, id) ==
    LET unit == W.units[id]
        found == {i \in 1..Len(W.towers) : W.towers[i].tower_id = unit.structure_id}
    IN  IF unit.unit_type = "TOWER_ARCHER" /\ unit.structure_id # "NONE" /\ found # {}
        THEN LET ti == CHOOSE i \in found : \A j \in found : i <= j
                 t1 == [W.towers[ti] EXCEPT !.archers_alive = Max(0, @ - 1)]
                 t2 == IF t1.archers_alive = 0 /\ t1.state = "STANDING"
                       THEN [t1 EXCEPT !.state = "VULNERABLE"] ELSE t1
             IN  [W EXCEPT !.towers[ti] = t2]
        ELSE W

\* Structure bookkeeping: the bunker of a dead captain.
DeathBunkerBookkeeping(W, id) ==
    LET unit == W.units[id]
        found == {i \in 1..Len(W.bunkers) : W.bunkers[i].bunker_id = unit.structure_id}
    IN  IF unit.unit_type = "CAPTAIN" /\ unit.structure_id # "NONE" /\ found # {}
        THEN LET bi == CHOOSE i \in found : \A j \in found : i <= j
             IN  [W EXCEPT !.bunkers[bi] =
                               destroy_bunker([W.bunkers[bi] EXCEPT !.captain_alive = FALSE])]
        ELSE W

\* Fault seed: the dead boss's own faction is recorded as the winner.
DeathGameOverOwnFaction(W, id) ==
    IF W.units[id].unit_type = "BOSS"
    THEN [W EXCEPT !.game_over = TRUE, !.winner = W.units[id].faction]
    ELSE W

\* A dead boss ends the game.
DeathGameOver(W, id) ==
    IF W.units[id].unit_type = "BOSS"
    THEN [W EXCEPT !.game_over = TRUE, !.winner = _enemy_faction(W.units[id].faction)]
    ELSE W

\* Fault seed: the credit is given without comparing the factions, to the victim's side.
DeathCreditToVictim(W, id) ==
    LET unit == W.units[id]
    IN  IF unit.last_hit_by_faction # "NONE"
        THEN [W EXCEPT !.gold[unit.faction] = @ + unit.gold_reward,
                       !.kills[unit.faction] = @ + 1]
        ELSE W

\* Gold and the kill count for the faction that hit last.
DeathCredit(W, id) ==
    LET unit == W.units[id]
        killer_faction == unit.last_hit_by_faction
    IN  IF killer_faction # "NONE" /\ killer_faction # unit.faction
        THEN [W EXCEPT !.gold[killer_faction] = @ + unit.gold_reward,
                       !.kills[killer_faction] = @ + 1]
        ELSE W

\* The history variable death_log records each death the handler handles: the unit,
\* its faction, the faction that hit it last and its reward, as they are on entry.
LogDeath(W, id) ==
    [W EXCEPT !.death_log = Append(@, [unit_id |-> id,
                                       faction |-> W.units[id].faction,
                                       killer |-> W.units[id].last_hit_by_faction,
                                       reward |-> W.units[id].gold_reward])]

\* The parts are applied innermost first: the log entry, the route, the structure
\* bookkeeping, the end of the game, the credit; the recall state is cleared last.
_on_unit_death(W, id) ==
    IF W.units[id].state \in {"DEAD", "RESPAWNING"} THEN W
    ELSE [DeathCredit(
              DeathGameOver(
                  DeathBunkerBookkeeping(
                      DeathTowerBookkeeping(
                          DeathRoute(LogDeath(W, id), id), id), id), id), id)
             EXCEPT !.units[id].recall_state = "IDLE"]

\* Fault seed: the binding is dropped, the commander lives on.
_retire_commander_for_tower(W, tower_id) ==
    IF tower_id \notin DOMAIN W.commanders_by_tower THEN W
    ELSE [W EXCEPT !.commanders_by_tower =
              [t \in (DOMAIN W.commanders_by_tower) \ {tower_id} |->
                  W.commanders_by_tower[t]]]

\* commanders_by_tower.pop(tower_id, None), then the commander's death.
_kill_commander_for_tower(W, tower_id) ==
    IF tower_id \notin DOMAIN W.commanders_by_tower THEN W
    ELSE LET commander_id == W.commanders_by_tower[tower_id]
             W1 == [W EXCEPT !.commanders_by_tower =
                        [t \in (DOMAIN W.commanders_by_tower) \ {tower_id} |->
                            W.commanders_by_tower[t]]]
         IN  IF is_alive(W1.units[commander_id])
             THEN _on_unit_death([W1 EXCEPT !.units[commander_id].hp = 0], commander_id)
             ELSE W1

(***************************************************************************)
(* Construction: Battlefield.__init__ and _spawn_defenders.                *)
(***************************************************************************)
RECURSIVE SpawnTowerArchers(_, _, _)
SpawnTowerArchers(W, ti, k) ==
    IF ti > Len(W.towers) THEN W
    ELSE IF k > Len(TOWER_ARCHER_OFFSETS) THEN SpawnTowerArchers(W, ti + 1, 1)
    ELSE LET c == W.towers[ti].center
             pos == <<c[1] + TOWER_ARCHER_OFFSETS[k][1], c[2] + TOWER_ARCHER_OFFSETS[k][2]>>
         IN  SpawnTowerArchers(_spawn_archer_for_tower(W, ti, pos), ti, k + 1)

RECURSIVE SpawnCaptains(_, _)
SpawnCaptains(W, bi) ==
    IF bi > Len(W.bunkers) THEN W
    ELSE LET bunker == W.bunkers[bi]
             uid == W.next_unit_id
             captain(unit) == _configure_elite_unit_zone(
                                  [unit EXCEPT
                                      !.state = "DEFENDING",
                                      !.leash_anchor = bunker.center,
                                      !.leash_radius_px = 120,
                                      !.respawns = FALSE,
                                      !.remaining_respawns = 0,
                                      !.structure_id = bunker.bunker_id],
                                  bunker.rect)
             posted(W1) == [W1 EXCEPT !.units[uid] = captain(W1.units[uid])]
         IN  SpawnCaptains(
                 posted(spawn_unit(W, bunker.faction_owner, "CAPTAIN", "NONE", bunker.center)),
                 bi + 1)

SpawnBoss(W, faction) ==
    LET uid == W.next_unit_id
        boss(unit) == _configure_elite_unit_zone(
                          [unit EXCEPT
                              !.state = "DEFENDING",
                              !.leash_anchor = BOSS_SPAWN(faction),
                              !.leash_radius_px = BOSS_LEASH_RADIUS,
                              !.respawns = FALSE,
                              !.remaining_respawns = 0,
                              !.base_max_hp = BOSS_BASE_MAX_HP,
                              !.base_damage = BOSS_BASE_DAMAGE],
                          KeepRect(faction))
        posted(W1) == [W1 EXCEPT !.units[uid] = boss(W1.units[uid]),
                                 !.boss_units[faction] = uid]
    IN  posted(spawn_unit(W, faction, "BOSS", "NONE", BOSS_SPAWN(faction)))

_commander_positions(faction) ==
    LET c == RectCenter(KeepRect(faction))
        offsets == << <<-80, -40>>, <<80, -40>>, <<-80, 40>>, <<80, 40>> >>
    IN  [k \in 1..Len(offsets) |-> <<c[1] + offsets[k][1], c[2] + offsets[k][2]>>]

\* The tower ids of config.py in string order, the key of sorted(..., key=tower_id).
TowerIdsInOrder ==
    << "T_N_E_FORWARD", "T_N_E_REAR", "T_N_W_FORWARD", "T_N_W_REAR",
       "T_S_E_FORWARD", "T_S_E_REAR", "T_S_W_FORWARD", "T_S_W_REAR" >>

\* The indices of geom.towers sorted by tower id.
TowersByTowerId(W) ==
    LET rank(i) == CHOOSE r \in 1..Len(TowerIdsInOrder) :
                       TowerIdsInOrder[r] = W.towers[i].tower_id
        at(r) == {i \in 1..Len(W.towers) : rank(i) = r}
        ranks == SortedSeq({rank(i) : i \in 1..Len(W.towers)})
    IN  [n \in 1..Len(ranks) |-> CHOOSE i \in at(ranks[n]) : TRUE]

\* One commander per tower of the faction that is not destroyed, the towers taken in
\* the order of their ids (ti counts through that order), as long as positions are
\* left.
RECURSIVE SpawnCommanders(_, _, _, _)
SpawnCommanders(W, faction, ti, k) ==
    IF ti > Len(W.towers) \/ k > Len(_commander_positions(faction)) THEN W
    ELSE IF ~(W.towers[TowersByTowerId(W)[ti]].faction_owner = faction
              /\ W.towers[TowersByTowerId(W)[ti]].state # "DESTROYED")
    THEN SpawnCommanders(W, faction, ti + 1, k)
    ELSE LET pos == _commander_positions(faction)[k]
             uid == W.next_unit_id
             commander(unit) == _configure_elite_unit_zone(
                                    [unit EXCEPT
                                        !.state = "DEFENDING",
                                        !.leash_anchor = pos,
                                        !.leash_radius_px = BOSS_LEASH_RADIUS,
                                        !.respawns = FALSE,
                                        !.remaining_respawns = 0,
                                        !.structure_id = W.towers[TowersByTowerId(W)[ti]].tower_id,
                                        !.base_max_hp = COMMANDER_BASE_MAX_HP,
                                        !.base_damage = COMMANDER_BASE_DAMAGE],
                                    KeepRect(faction))
             tid == W.towers[TowersByTowerId(W)[ti]].tower_id
             posted(W1) == [W1 EXCEPT !.units[uid] = commander(W1.units[uid]),
                                      !.commanders_by_tower =
                                          [t \in (DOMAIN W1.commanders_by_tower) \cup {tid} |->
                                              IF t = tid THEN uid
                                              ELSE W1.commanders_by_tower[t]]]
         IN  SpawnCommanders(posted(spawn_unit(W, faction, "COMMANDER", "NONE", pos)),
                             faction, ti + 1, k + 1)

\* Innermost first: the tower archers, the captains, the two bosses, the commanders
\* of each faction, and the scaling of each boss.
_spawn_defenders(W) ==
    _update_boss_scaling(
        _update_boss_scaling(
            SpawnCommanders(
                SpawnCommanders(
                    SpawnBoss(
                        SpawnBoss(SpawnCaptains(SpawnTowerArchers(W, 1, 1), 1), "PLAYER"),
                        "ENEMY"),
                    "PLAYER", 1, 1),
                "ENEMY", 1, 1),
            "PLAYER"),
        "ENEMY")

\* Battlefield(geom), for a map with the towers geom_towers.
Battlefield(geom_towers) ==
    _spawn_defenders(
        [units |-> <<>>, next_unit_id |-> 1, time_s |-> 0,
         towers |-> geom_towers, bunkers |-> build_bunkers, graveyards |-> build_graveyards,
         boss_units |-> [f \in Factions |-> NoId],
         commanders_by_tower |-> <<>>,
         gold |-> [f \in Factions |->
                      IF f = "PLAYER" THEN STARTING_GOLD_PLAYER ELSE STARTING_GOLD_ENEMY],
         kills |-> [f \in Factions |-> 0],
         recall_cooldowns |-> [f \in Factions |-> RECALL_NEVER],
         recall_channels |-> [f \in Factions |-> NoChannel],
         game_over |-> FALSE, winner |-> "NONE",
         lane_purchase_index |-> 0,
         spatial |-> <<>>,
         death_log |-> <<>>, scale_log |-> <<>>, hit_log |-> <<>>])

NewBattlefield == Battlefield(build_towers)

(***************************************************************************)
(* SpatialHash.  spatial[id] is the cell the unit was inserted in at the   *)
(* last rebuild (inserted = FALSE: not inserted).  A bucket's order does   *)
(* not matter to any caller, so a query yields a set of ids.               *)
(***************************************************************************)
_cell_coords(pos) == <<pos[1] \div SPATIAL_HASH_CELL_SIZE, pos[2] \div SPATIAL_HASH_CELL_SIZE>>

_update_spatial(W) ==
    [W EXCEPT !.spatial =
        [i \in 1..Len(W.units) |->
            IF is_alive(W.units[i])
            THEN [inserted |-> TRUE, cell |-> _cell_coords(W.units[i].pos)]
            ELSE [inserted |-> FALSE, cell |-> <<0, 0>>]]]

query_radius(W, pos, radius) ==
    LET c == _cell_coords(pos)
        cells_offset == CeilDiv(radius, SPATIAL_HASH_CELL_SIZE)
    IN  {i \in DOMAIN W.spatial :
            /\ W.spatial[i].inserted
            /\ Abs(W.spatial[i].cell[1] - c[1]) <= cells_offset
            /\ Abs(W.spatial[i].cell[2] - c[2]) <= cells_offset}

(***************************************************************************)
(* SpatialHash as the program keeps it: buckets, a function from the cells  *)
(* that hold units to the lists of their ids.  The battlefield above keeps  *)
(* for each unit the cell it was inserted in, which is the same            *)
(* information; the properties of the index are stated on the buckets.     *)
(***************************************************************************)
\* Fault seed: a unit on a cell border is also listed in the cell before it.
SpatialHash_insert_on_borders(buckets, unit) ==
    LET cell == _cell_coords(unit.pos)
        with(b, c) == IF c \in DOMAIN b THEN [b EXCEPT ![c] = Append(@, unit.unit_id)]
                      ELSE b @@ (c :> <<unit.unit_id>>)
    IN  IF unit.pos[2] % SPATIAL_HASH_CELL_SIZE = 0
        THEN with(with(buckets, <<cell[1], cell[2] - 1>>), cell)
        ELSE with(buckets, cell)

\* insert: self.buckets.setdefault(cell, []).append(unit.unit_id)
SpatialHash_insert(buckets, unit) ==
    LET cell == _cell_coords(unit.pos)
    IN  IF cell \in DOMAIN buckets THEN [buckets EXCEPT ![cell] = Append(@, unit.unit_id)]
        ELSE buckets @@ (cell :> <<unit.unit_id>>)

\* _update_spatial on the buckets: cleared, then the living units inserted in
\* dictionary (id) order, from unit i on.
RECURSIVE SpatialHash_rebuild(_, _, _)
SpatialHash_rebuild(W, buckets, i) ==
    IF i > Len(W.units) THEN buckets
    ELSE SpatialHash_rebuild(W,
                             IF is_alive(W.units[i])
                             THEN SpatialHash_insert(buckets, W.units[i])
                             ELSE buckets,
                             i + 1)

\* The inner loop of query_radius: for dy in range(-cells_offset, cells_offset + 1).
RECURSIVE SpatialHash_scan_dy(_, _, _, _, _)
SpatialHash_scan_dy(buckets, c, cells_offset, dx, dy) ==
    IF dy > cells_offset THEN <<>>
    ELSE (IF <<c[1] + dx, c[2] + dy>> \in DOMAIN buckets
          THEN buckets[<<c[1] + dx, c[2] + dy>>] ELSE <<>>)
             \o SpatialHash_scan_dy(buckets, c, cells_offset, dx, dy + 1)

\* The outer loop: for dx in range(-cells_offset, cells_offset + 1).
RECURSIVE SpatialHash_scan(_, _, _, _)
SpatialHash_scan(buckets, c, cells_offset, dx) ==
    IF dx > cells_offset THEN <<>>
    ELSE SpatialHash_scan_dy(buckets, c, cells_offset, dx, 0 - cells_offset)
             \o SpatialHash_scan(buckets, c, cells_offset, dx + 1)

\* Fault seed: the offset in cells is rounded down.
SpatialHash_query_radius_floor(buckets, pos, radius) ==
    (LET scan(cells_offset) ==
             SpatialHash_scan(buckets, _cell_coords(pos), cells_offset, 0 - cells_offset)
     IN  scan(radius \div SPATIAL_HASH_CELL_SIZE))

\* query_radius: the list of ids it returns.
SpatialHash_query_radius(buckets, pos, radius) ==
    (LET scan(cells_offset) ==
             SpatialHash_scan(buckets, _cell_coords(pos), cells_offset, 0 - cells_offset)
     IN  scan(CeilDiv(radius, SPATIAL_HASH_CELL_SIZE)))

(***************************************************************************)
(* Recall                                                                  *)
(***************************************************************************)
recall_cooldown_remaining(W, faction) ==
    LET elapsed == W.time_s - W.recall_cooldowns[faction]
    IN  Max(0, RECALL_COOLDOWN_S - elapsed)

\* Fault seed: the cooldown is not looked at.
can_use_recall_ignoring_cooldown(W, faction) ==
    /\ ~W.game_over
    /\ ~W.recall_channels[faction].active

can_use_recall(W, faction) ==
    /\ ~W.game_over
    /\ ~W.recall_channels[faction].active
    /\ recall_cooldown_remaining(W, faction) <= 0

\* trigger_recall: [W, ok], ok being the value returned.
trigger_recall(W, faction) ==
    IF ~can_use_recall(W, faction) THEN [W |-> W, ok |-> FALSE]
    ELSE LET hit(i) == /\ is_alive(W.units[i])
                       /\ W.units[i].faction = faction
                       /\ W.units[i].unit_type \notin {"BOSS", "TOWER_ARCHER", "CAPTAIN"}
             targets == SortedSeq({i \in 1..Len(W.units) : hit(i)})
         IN  [W |-> [W EXCEPT
                        !.units = [i \in 1..Len(W.units) |->
                                      IF hit(i)
                                      THEN [W.units[i] EXCEPT !.recall_state = "CHANNELING",
                                                              !.target_id = NoId]
                                      ELSE W.units[i]],
                        !.recall_cooldowns[faction] = W.time_s,
                        !.recall_channels[faction] =
                            [active |-> TRUE, remaining |-> RECALL_CHANNEL_DURATION_S,
                             units |-> targets]],
              ok |-> TRUE]

_boss_position(W, faction) ==
    LET boss_id == W.boss_units[faction]
    IN  IF boss_id # NoId /\ is_alive(W.units[boss_id]) THEN W.units[boss_id].pos
        ELSE BOSS_SPAWN(faction)

\* cos and sin of k eighths of a turn, times 1000.
Cos8 == <<1000, 707, 0, -707, -1000, -707, 0, 707>>
Sin8 == <<0, 707, 1000, 707, 0, -707, -1000, -707>>

\* The place on the ring of the idx-th unit of n: angle_step = 2 pi / max(8, n),
\* radius = 32 + 18 * (idx // 12).  With more than 8 units the angle is taken to the
\* eighth of a turn below it.
RingPos(boss_pos, idx, n) ==
    LET slots == Max(1, Max(8, n))
        k == ((idx * 8) \div slots) % 8
        radius == 32 + 18 * (idx \div 12)
    IN  <<boss_pos[1] + TruncDiv(Cos8[k + 1] * radius, 1000),
          boss_pos[2] + TruncDiv(Sin8[k + 1] * radius, 1000)>>

_complete_recall(W, faction) ==
    LET channel == W.recall_channels[faction]
    IN  IF ~channel.active THEN W
        ELSE LET boss_pos == _boss_position(W, faction)
                 n == Len(channel.units)
                 idxOf(i) == CHOOSE k \in 1..n : channel.units[k] = i
                 hit(i) == (\E k \in 1..n : channel.units[k] = i) /\ is_alive(W.units[i])
                 moved(i) ==
                     _reset_waypoint_progress(
                         [W.units[i] EXCEPT
                             !.pos = RingPos(boss_pos, idxOf(i) - 1, n),
                             !.recall_state = "RETURNING",
                             !.target_id = NoId,
                             !.attack_timer_s = W.units[i].attack_cooldown_s,
                             !.time_off_lane_s = 0,
                             !.out_of_combat_time_s = 0])
             IN  [W EXCEPT !.units = [i \in 1..Len(W.units) |->
                                         IF hit(i) THEN moved(i) ELSE W.units[i]],
                           !.recall_channels[faction] = NoChannel]

UpdateRecallFor(W, faction, dt) ==
    IF ~W.recall_channels[faction].active THEN W
    ELSE LET W1 == [W EXCEPT !.recall_channels[faction].remaining = @ - dt]
         IN  IF W1.recall_channels[faction].remaining <= 0
             THEN _complete_recall(W1, faction)
             ELSE W1

_update_recall(W, dt) == UpdateRecallFor(UpdateRecallFor(W, "PLAYER", dt), "ENEMY", dt)

(***************************************************************************)
(* Targeting                                                               *)
(***************************************************************************)
\* min over a non-empty set of ids by (dist2 to pos, id)
NearestById(W, ids, pos) ==
    CHOOSE a \in ids : \A b \in ids :
        \/ Dist2(W.units[a].pos, pos) < Dist2(W.units[b].pos, pos)
        \/ Dist2(W.units[a].pos, pos) = Dist2(W.units[b].pos, pos) /\ a <= b

RECURSIVE AssignCommanders(_, _, _, _, _)
AssignCommanders(W, commanders, k, attackers, assigned) ==
    IF k > Len(commanders) THEN W
    ELSE LET cid == commanders[k]
             c == W.units[cid]
             free == attackers \ assigned
             candidates == IF free # {} THEN free ELSE attackers
             in_range == {a \in candidates :
                             Dist2(W.units[a].pos, c.pos) <= c.aggro_range_px * c.aggro_range_px}
         IN  IF in_range = {}
             THEN AssignCommanders(W, commanders, k + 1, attackers, assigned)
             ELSE LET chosen == NearestById(W, in_range, c.pos)
                  IN  AssignCommanders([W EXCEPT !.units[cid].target_id = chosen],
                                       commanders, k + 1, attackers, assigned \cup {chosen})

CoordinateFaction(W, faction) ==
    LET boss_id == W.boss_units[faction]
    IN  IF boss_id = NoId \/ ~is_alive(W.units[boss_id]) THEN W
        ELSE LET attackers == {i \in 1..Len(W.units) :
                                  /\ is_alive(W.units[i])
                                  /\ W.units[i].faction # faction
                                  /\ W.units[i].target_id = boss_id}
                 commanders == {W.commanders_by_tower[t] : t \in DOMAIN W.commanders_by_tower}
                 mine == {c \in commanders : is_alive(W.units[c]) /\ W.units[c].faction = faction}
             IN  IF attackers = {} THEN W
                 ELSE AssignCommanders(W, SortedSeq(mine), 1, attackers, {})

_coordinate_commander_targets(W) == CoordinateFaction(CoordinateFaction(W, "PLAYER"), "ENEMY")

_bunker_for_id(W, bunker_id) ==
    LET hit == {b \in 1..Len(W.bunkers) : W.bunkers[b].bunker_id = bunker_id}
    IN  IF bunker_id = "NONE" \/ hit = {} THEN 0 ELSE CHOOSE b \in hit : \A c \in hit : b <= c

\* [has, rect, home]: the zone an elite unit defends.
_elite_aggro_zone(W, unit) ==
    IF unit.unit_type = "CAPTAIN" /\ _bunker_for_id(W, unit.structure_id) # 0
    THEN [has |-> TRUE, rect |-> W.bunkers[_bunker_for_id(W, unit.structure_id)].rect,
          home |-> unit.leash_anchor]
    ELSE IF unit.unit_type \in {"BOSS", "COMMANDER"}
    THEN [has |-> TRUE, rect |-> KeepRect(unit.faction), home |-> unit.leash_anchor]
    ELSE [has |-> FALSE, rect |-> Rect(0, 0, 0, 0), home |-> NoPos]

\* first strict minimum in dictionary (id) order
_select_elite_target(W, unit, zone) ==
    LET cands == {i \in 1..Len(W.units) :
                     /\ is_alive(W.units[i])
                     /\ W.units[i].faction # unit.faction
                     /\ CollidePoint(zone, W.units[i].pos)}
    IN  IF cands = {} THEN NoId ELSE NearestById(W, cands, unit.pos)

\* Fault seed: the candidates the index lists are not asked whether they still live.
_select_target_among_listed(W, unit) ==
    LET cands == {i \in query_radius(W, unit.pos, unit.aggro_range_px) :
                     /\ i # unit.unit_id
                     /\ W.units[i].faction # unit.faction
                     /\ Dist2(W.units[i].pos, unit.pos) <= unit.aggro_range_px * unit.aggro_range_px}
        key(i) == <<Dist2(W.units[i].pos, unit.pos), W.units[i].hp, i>>
        before(a, b) ==
            \/ key(a)[1] < key(b)[1]
            \/ key(a)[1] = key(b)[1] /\ key(a)[2] < key(b)[2]
            \/ key(a)[1] = key(b)[1] /\ key(a)[2] = key(b)[2] /\ a <= b
    IN  IF cands = {} THEN NoId ELSE CHOOSE a \in cands : \A b \in cands : before(a, b)

\* nearest, then lowest hp, then lowest id
_select_target(W, unit) ==
    LET cands == {i \in query_radius(W, unit.pos, unit.aggro_range_px) :
                     /\ i # unit.unit_id
                     /\ is_alive(W.units[i])
                     /\ W.units[i].faction # unit.faction
                     /\ Dist2(W.units[i].pos, unit.pos) <= unit.aggro_range_px * unit.aggro_range_px}
        key(i) == <<Dist2(W.units[i].pos, unit.pos), W.units[i].hp, i>>
        before(a, b) ==
            \/ key(a)[1] < key(b)[1]
            \/ key(a)[1] = key(b)[1] /\ key(a)[2] < key(b)[2]
            \/ key(a)[1] = key(b)[1] /\ key(a)[2] = key(b)[2] /\ a <= b
    IN  IF cands = {} THEN NoId ELSE CHOOSE a \in cands : \A b \in cands : before(a, b)

\* Fault seed: on a tie in distance and hp the later candidate wins.
RECURSIVE SelectTargetLoopLastWins(_, _, _, _, _)
SelectTargetLoopLastWins(W, unit, candidates, k, best_id) ==
    IF k > Len(candidates) THEN best_id
    ELSE LET enemy == W.units[candidates[k]]
             dist2 == Dist2(enemy.pos, unit.pos)
             skipped == \/ candidates[k] = unit.unit_id
                        \/ ~is_alive(enemy)
                        \/ enemy.faction = unit.faction
                        \/ dist2 > unit.aggro_range_px * unit.aggro_range_px
             better == \/ best_id = NoId
                       \/ dist2 < Dist2(W.units[best_id].pos, unit.pos)
                       \/ /\ dist2 = Dist2(W.units[best_id].pos, unit.pos)
                          /\ enemy.hp <= W.units[best_id].hp
         IN  SelectTargetLoopLastWins(W, unit, candidates, k + 1,
                                      IF ~skipped /\ better THEN enemy.unit_id ELSE best_id)

\* Fault seed: the first candidate that qualifies is kept.
RECURSIVE SelectTargetLoopFirstFound(_, _, _, _, _)
SelectTargetLoopFirstFound(W, unit, candidates, k, best_id) ==
    IF k > Len(candidates) THEN best_id
    ELSE LET enemy == W.units[candidates[k]]
             dist2 == Dist2(enemy.pos, unit.pos)
             skipped == \/ candidates[k] = unit.unit_id
                        \/ ~is_alive(enemy)
                        \/ enemy.faction = unit.faction
                        \/ dist2 > unit.aggro_range_px * unit.aggro_range_px
             better == best_id = NoId
         IN  SelectTargetLoopFirstFound(W, unit, candidates, k + 1,
                                        IF ~skipped /\ better THEN enemy.unit_id ELSE best_id)

\* Lines 674-697: the loop of _select_target over the list query_radius returned,
\* from its k-th candidate on; best_dist2 is the distance of best_id.
RECURSIVE SelectTargetLoop(_, _, _, _, _)
SelectTargetLoop(W, unit, candidates, k, best_id) ==
    IF k > Len(candidates) THEN best_id
    ELSE LET enemy == W.units[candidates[k]]
             dist2 == Dist2(enemy.pos, unit.pos)
             skipped == \/ candidates[k] = unit.unit_id
                        \/ ~is_alive(enemy)
                        \/ enemy.faction = unit.faction
                        \/ dist2 > unit.aggro_range_px * unit.aggro_range_px
             better == \/ best_id = NoId
                       \/ dist2 < Dist2(W.units[best_id].pos, unit.pos)
                       \/ /\ dist2 = Dist2(W.units[best_id].pos, unit.pos)
                          /\ \/ enemy.hp < W.units[best_id].hp
                             \/ /\ enemy.hp = W.units[best_id].hp
                                /\ enemy.unit_id < best_id
         IN  SelectTargetLoop(W, unit, candidates, k + 1,
                              IF ~skipped /\ better THEN enemy.unit_id ELSE best_id)

_friendly_bunker_bonus(W, unit) ==
    /\ unit.unit_type # "TOWER_ARCHER"
    /\ \E b \in 1..Len(W.bunkers) :
          /\ W.bunkers[b].faction_owner = unit.faction
          /\ W.bunkers[b].state # "DESTROYED"
          /\ W.bunkers[b].captain_alive
          /\ CollidePoint(W.bunkers[b].rect, unit.pos)

_effective_attack_cooldown(W, unit) ==
    IF _friendly_bunker_bonus(W, unit) THEN (unit.attack_cooldown_s * 8) \div 10
    ELSE unit.attack_cooldown_s

(***************************************************************************)
(* Movement.  A displacement is rounded to whole pixels away from the      *)
(* start, and the distance it is scaled by is rounded up, so that a unit   *)
(* with a non-zero step always makes progress and never passes the         *)
(* destination.                                                            *)
(***************************************************************************)
HypotUp(dx, dy) ==
    LET up(r) == IF r * r = dx * dx + dy * dy THEN r ELSE r + 1 IN up(Hypot(dx, dy))

\* d * step / dist for one axis, rounded away from zero.
Displace(d, step, dist) ==
    IF d >= 0 THEN CeilDiv(d * step, dist) ELSE -CeilDiv((-d) * step, dist)

\* unit.move_speed_px_s * dt in pixels (dt is in centiseconds).
StepPx(unit, dt) == (unit.move_speed_px_s * dt) \div CS

\* _move_towards: the position it leaves the unit at.
_move_towards(unit, dest, dt, stop_distance) ==
    LET dx == dest[1] - unit.pos[1]
        dy == dest[2] - unit.pos[2]
        d2 == dx * dx + dy * dy
        dist == HypotUp(dx, dy)
        max_step == dist - stop_distance
        step == Min(StepPx(unit, dt), max_step)
    IN  IF d2 <= stop_distance * stop_distance \/ d2 = 0 THEN unit.pos
        ELSE IF step <= 0 THEN unit.pos
        ELSE <<unit.pos[1] + Displace(dx, step, dist), unit.pos[2] + Displace(dy, step, dist)>>

_is_near_lane(pos) ==
    \E cx \in {X_W, X_C, X_E} : Abs(pos[1] - cx) <= LANE_PROXIMITY_THRESHOLD_PX

\* All (lane, waypoint) pairs in the order _nearest_lane_point visits them.
LanePoints(faction) ==
    LET pts(lane, waypoints) == [i \in 1..Len(waypoints) |-> [lane |-> lane, pt |-> waypoints[i]]]
    IN  pts(Lanes[1], _lane_waypoints(faction, Lanes[1]))
        \o pts(Lanes[2], _lane_waypoints(faction, Lanes[2]))
        \o pts(Lanes[3], _lane_waypoints(faction, Lanes[3]))

\* first strict minimum
_nearest_lane_point(unit) ==
    LET nearest(pts) ==
            LET d(i) == Dist2(pts[i].pt, unit.pos)
            IN  pts[CHOOSE i \in 1..Len(pts) :
                        \A j \in 1..Len(pts) : d(i) < d(j) \/ (d(i) = d(j) /\ i <= j)]
    IN  nearest(LanePoints(unit.faction))

\* The unit put on the lane point nearest to it.
SnappedToLane(unit, nearest) ==
    _reset_waypoint_progress(
        [unit EXCEPT !.pos = nearest.pt, !.lane = nearest.lane,
                     !.time_off_lane_s = 0, !.target_id = NoId])

_recover_stuck_unit(unit, dt) ==
    IF unit.move_speed_px_s <= 0 \/ unit.lane \notin LaneNames
    THEN [unit EXCEPT !.time_off_lane_s = 0]
    ELSE IF _is_near_lane(unit.pos) THEN [unit EXCEPT !.time_off_lane_s = 0]
    ELSE IF unit.time_off_lane_s + dt < STUCK_LANE_TIMEOUT_S
    THEN [unit EXCEPT !.time_off_lane_s = @ + dt]
    ELSE SnappedToLane(unit, _nearest_lane_point(unit))

\* Lines 782-791: the unit after a move of <<mx, my>>, or of half of it, where the
\* ground is passable; full: the move reaches the waypoint.
MovedBy(W, unit, mx, my, full) ==
    LET proposed == <<unit.pos[1] + mx, unit.pos[2] + my>>
        half_step == <<unit.pos[1] + TruncDiv(mx, 2), unit.pos[2] + TruncDiv(my, 2)>>
    IN  IF is_point_passable(proposed, W)
        THEN [unit EXCEPT !.pos = proposed, !.wp_index = IF full THEN @ + 1 ELSE @]
        ELSE IF is_point_passable(half_step, W) THEN [unit EXCEPT !.pos = half_step]
        ELSE unit

\* Lines 771-781: the step towards the waypoint at dx, dy, which is dist away.
SteppedTowards(W, unit, dx, dy, dist, step) ==
    IF dx * dx + dy * dy < 8 * 8 THEN [unit EXCEPT !.wp_index = @ + 1]
    ELSE IF step >= dist THEN MovedBy(W, unit, dx, dy, TRUE)
    ELSE MovedBy(W, unit, Displace(dx, step, dist), Displace(dy, step, dist), FALSE)

\* _advance_waypoint: the unit it leaves.
_advance_waypoint(W, unit, dt) ==
    LET towards(target) ==
            SteppedTowards(W, unit, target[1] - unit.pos[1], target[2] - unit.pos[2],
                           HypotUp(target[1] - unit.pos[1], target[2] - unit.pos[2]),
                           StepPx(unit, dt))
        along(waypoints) ==
            IF unit.wp_index >= Len(waypoints) THEN unit
            ELSE towards(waypoints[unit.wp_index + 1])
    IN  along(_lane_waypoints(unit.faction, unit.lane))

\* hp after n heals of pct percent of max_hp, each capped at max_hp.
HealedHp(unit, pct, n) == Min(unit.max_hp, unit.hp + n * ((unit.max_hp * pct) \div 100))

_update_regeneration(unit, dt, in_combat) ==
    IF in_combat THEN [unit EXCEPT !.out_of_combat_time_s = 0, !.regen_timer_s = 0]
    ELSE LET u1 == [unit EXCEPT !.out_of_combat_time_s = @ + dt]
             t == u1.regen_timer_s + dt
         IN  IF u1.hp >= u1.max_hp THEN u1
             ELSE IF u1.out_of_combat_time_s < REGEN_OUT_OF_COMBAT_DELAY_S THEN u1
             ELSE [u1 EXCEPT !.regen_timer_s = t % REGEN_INTERVAL_S,
                             !.hp = HealedHp(u1, REGEN_PERCENT_X100, t \div REGEN_INTERVAL_S)]

(***************************************************************************)
(* Support units                                                           *)
(***************************************************************************)
_update_healer(W, id, dt) ==
    LET unit == W.units[id]
        timer == unit.heal_timer_s + dt
        anim == Max(0, unit.heal_anim_timer_s - dt)
        healed(i) == /\ i \in query_radius(W, unit.pos, HEALER_HEAL_RADIUS_PX)
                     /\ is_alive(W.units[i])
                     /\ W.units[i].faction = unit.faction
                     /\ W.units[i].unit_type \notin {"BOSS", "COMMANDER"}
                     /\ W.units[i].hp < W.units[i].max_hp
        healed_any == \E i \in 1..Len(W.units) : healed(i)
    IN  IF unit.unit_type # "HEALER" THEN W
        ELSE IF timer < HEALER_HEAL_COOLDOWN_S
        THEN [W EXCEPT !.units[id].heal_timer_s = timer, !.units[id].heal_anim_timer_s = anim]
        ELSE [W EXCEPT !.units =
                 [i \in 1..Len(W.units) |->
                     LET u1 == IF healed(i)
                               THEN [W.units[i] EXCEPT
                                        !.hp = HealedHp(W.units[i], HEALER_HEAL_PERCENT_X100, 1)]
                               ELSE W.units[i]
                     IN  IF i = id
                         THEN [u1 EXCEPT !.heal_timer_s = timer - HEALER_HEAL_COOLDOWN_S,
                                         !.heal_anim_timer_s =
                                             IF healed_any THEN HEALER_HEAL_ANIM_DURATION_S
                                             ELSE anim]
                         ELSE u1]]

\* The first BULWARK_TAUNT_TARGETS ids of a set by (dist2 to pos, id).
RECURSIVE NearestN(_, _, _, _)
NearestN(W, ids, pos, n) ==
    IF n = 0 \/ ids = {} THEN {}
    ELSE LET a == NearestById(W, ids, pos)
         IN  {a} \cup NearestN(W, ids \ {a}, pos, n - 1)

_taunt_nearest_enemies(W, id) ==
    LET unit == W.units[id]
        enemies == {i \in query_radius(W, unit.pos, unit.aggro_range_px) :
                       /\ i # id
                       /\ is_alive(W.units[i])
                       /\ W.units[i].faction # unit.faction
                       /\ W.units[i].unit_type \notin {"BOSS", "COMMANDER"}
                       /\ Dist2(W.units[i].pos, unit.pos)
                              <= unit.aggro_range_px * unit.aggro_range_px}
        taunted == NearestN(W, enemies, unit.pos, BULWARK_TAUNT_TARGETS)
    IN  [W EXCEPT !.units = [i \in 1..Len(W.units) |->
                                IF i \in taunted THEN [W.units[i] EXCEPT !.target_id = id]
                                ELSE W.units[i]]]

_update_bulwark(W, id, dt) ==
    LET timer == W.units[id].taunt_timer_s + dt
    IN  IF W.units[id].unit_type # "BULWARK" THEN W
        ELSE IF timer < BULWARK_TAUNT_COOLDOWN_S THEN [W EXCEPT !.units[id].taunt_timer_s = timer]
        ELSE _taunt_nearest_enemies(
                 [W EXCEPT !.units[id].taunt_timer_s = timer - BULWARK_TAUNT_COOLDOWN_S], id)

(***************************************************************************)
(* _update_unit, in the order of its parts.                                *)
(***************************************************************************)
\* Fault seed: the target is kept without asking whether it is alive.
KeptTargetDeadOrAlive(W, unit, zone) ==
    IF unit.target_id = NoId THEN NoId
    ELSE LET target == W.units[unit.target_id]
             target_inside_zone == zone.has /\ CollidePoint(zone.rect, target.pos)
         IN  IF zone.has /\ ~target_inside_zone THEN NoId
             ELSE IF ~target_inside_zone
                     /\ Dist2(target.pos, unit.pos) > unit.aggro_range_px * unit.aggro_range_px
             THEN NoId
             ELSE unit.target_id

\* Lines 891-904: the target the unit keeps.
KeptTarget(W, unit, zone) ==
    IF unit.target_id = NoId THEN NoId
    ELSE LET target == W.units[unit.target_id]
             target_inside_zone == zone.has /\ CollidePoint(zone.rect, target.pos)
         IN  IF ~is_alive(target) THEN NoId
             ELSE IF zone.has /\ ~target_inside_zone THEN NoId
             ELSE IF ~target_inside_zone
                     /\ Dist2(target.pos, unit.pos) > unit.aggro_range_px * unit.aggro_range_px
             THEN NoId
             ELSE unit.target_id

\* Lines 906-909: the target the unit acts on.
ChosenTarget(W, unit, zone) ==
    LET kept == KeptTarget(W, unit, zone)
    IN  IF kept # NoId THEN kept
        ELSE IF zone.has THEN _select_elite_target(W, unit, zone.rect)
        ELSE _select_target(W, unit)

\* Fault seed: the attack does not hand a target at hp <= 0 to the death handler.
StrikeWithoutDeath(W, id, dt) ==
    LET unit == W.units[id]
        tid == unit.target_id
        timer == unit.attack_timer_s - dt
    IN  IF timer > 0 THEN [W EXCEPT !.units[id].attack_timer_s = timer]
        ELSE [W EXCEPT !.units[tid].hp = @ - unit.damage,
                       !.units[tid].last_hit_by_faction = unit.faction,
                       !.units[id].attack_timer_s = _effective_attack_cooldown(W, unit)]

\* Fault seed: one hit for every cooldown that has run out within the tick.
StrikePerCooldown(W, id, dt) ==
    LET unit == W.units[id]
        tid == unit.target_id
        timer == unit.attack_timer_s - dt
        hits == 1 + ((0 - timer) \div unit.attack_cooldown_s)
        hit == [W EXCEPT !.units[tid].hp = @ - hits * unit.damage,
                         !.units[tid].last_hit_by_faction = unit.faction,
                         !.units[id].attack_timer_s = _effective_attack_cooldown(W, unit)]
    IN  IF timer > 0 THEN [W EXCEPT !.units[id].attack_timer_s = timer]
        ELSE IF hit.units[tid].hp <= 0 THEN _on_unit_death(hit, tid)
        ELSE hit

\* The history variable hit_log records each hit: who hit whom, their factions, and
\* the state of the target when it was hit.
LogHit(W, id, tid) ==
    [W EXCEPT !.hit_log = Append(@, [attacker |-> id, target |-> tid,
                                     attacker_faction |-> W.units[id].faction,
                                     target_faction |-> W.units[tid].faction,
                                     target_state |-> W.units[tid].state])]

\* Lines 920-926: the attack of unit id on its target when in range.
Strike(W, id, dt) ==
    LET unit == W.units[id]
        tid == unit.target_id
        timer == unit.attack_timer_s - dt
        hit == [LogHit(W, id, tid) EXCEPT
                         !.units[tid].hp = @ - unit.damage,
                         !.units[tid].last_hit_by_faction = unit.faction,
                         !.units[id].attack_timer_s = _effective_attack_cooldown(W, unit)]
    IN  IF timer > 0 THEN [W EXCEPT !.units[id].attack_timer_s = timer]
        ELSE IF hit.units[tid].hp <= 0 THEN _on_unit_death(hit, tid)
        ELSE hit

\* Lines 911-931.
ActOnTarget(W, id, zone, dt) ==
    LET unit == W.units[id]
    IN  IF unit.target_id # NoId
        THEN LET target == W.units[unit.target_id]
             IN  IF Dist2(target.pos, unit.pos) > unit.attack_range_px * unit.attack_range_px
                 THEN [W EXCEPT !.units[id].pos =
                                    _move_towards(unit, target.pos, dt, unit.attack_range_px)]
                 ELSE Strike(W, id, dt)
        ELSE IF zone.has
        THEN [W EXCEPT !.units[id].pos = _move_towards(unit, zone.home, dt, 0)]
        ELSE IF unit.move_speed_px_s > 0 /\ unit.lane \in LaneNames
        THEN [W EXCEPT !.units[id] = _advance_waypoint(W, unit, dt)]
        ELSE W

\* Lines 906-931: the unit takes its target and acts on it.
Engage(W, id, zone, dt) ==
    ActOnTarget([W EXCEPT !.units[id].target_id = ChosenTarget(W, W.units[id], zone)],
                id, zone, dt)

\* Lines 933-934: in_combat is whether the unit has a target after it has acted.
Regenerate(W, id, dt) ==
    [W EXCEPT !.units[id] =
        _update_regeneration(W.units[id], dt, W.units[id].target_id # NoId)]

\* Lines 888-931: the zone the unit defends, and what the unit does in it.
UnitActs(W, id, dt) == Engage(W, id, _elite_aggro_zone(W, W.units[id]), dt)

\* Innermost first: the recovery of a stuck unit, the bulwark's taunt, the healer's
\* heal, the unit's action, the regeneration.
_update_unit(W, id, dt) ==
    IF W.units[id].state \in {"DEAD", "RESPAWNING"} THEN W
    ELSE IF W.units[id].recall_state = "CHANNELING" THEN W
    ELSE Regenerate(
             UnitActs(
                 _update_healer(
                     _update_bulwark(
                         [W EXCEPT !.units[id] = _recover_stuck_unit(W.units[id], dt)],
                         id, dt),
                     id, dt),
                 id, dt),
             id, dt)

RECURSIVE UpdateUnits(_, _, _)
UpdateUnits(W, id, dt) ==
    IF id > Len(W.units) THEN W ELSE UpdateUnits(_update_unit(W, id, dt), id + 1, dt)

(***************************************************************************)
(* Separation: a unit is pushed away from friends within the radius, one   *)
(* unit after the other.  Unit vectors are in thousandths.                 *)
(***************************************************************************)
SeparatedPos(W, id, dt) ==
    LET unit == W.units[id]
        part(n, k) == TruncDiv((unit.pos[k] - W.units[n].pos[k]) * 1000,
                               HypotUp(unit.pos[1] - W.units[n].pos[1],
                                       unit.pos[2] - W.units[n].pos[2]))
        push == (unit.move_speed_px_s * SEPARATION_PUSH_LIMIT_X100 * dt) \div (100 * CS)
        pushed(repulse_x, repulse_y, length) ==
            IF length > 0
            THEN <<unit.pos[1] + TruncDiv(repulse_x * push, length),
                   unit.pos[2] + TruncDiv(repulse_y * push, length)>>
            ELSE unit.pos
        repulsed(repulse_x, repulse_y) ==
            pushed(repulse_x, repulse_y, HypotUp(repulse_x, repulse_y))
        away_from(near) ==
            repulsed(SeqSum([j \in 1..Len(near) |-> part(near[j], 1)]),
                     SeqSum([j \in 1..Len(near) |-> part(near[j], 2)]))
    IN  away_from(SortedSeq({n \in query_radius(W, unit.pos, SEPARATION_RADIUS_PX) :
                                /\ n # id
                                /\ is_alive(W.units[n])
                                /\ W.units[n].faction = unit.faction
                                /\ Dist2(unit.pos, W.units[n].pos) # 0
                                /\ Dist2(unit.pos, W.units[n].pos)
                                       <= SEPARATION_RADIUS_PX * SEPARATION_RADIUS_PX}))

RECURSIVE _apply_separation(_, _, _)
_apply_separation(W, id, dt) ==
    IF id > Len(W.units) THEN W
    ELSE IF ~is_alive(W.units[id]) \/ W.units[id].move_speed_px_s <= 0
    THEN _apply_separation(W, id + 1, dt)
    ELSE _apply_separation([W EXCEPT !.units[id].pos = SeparatedPos(W, id, dt)], id + 1, dt)

(***************************************************************************)
(* Respawns                                                                *)
(***************************************************************************)
_respawn_unit_at_graveyard(unit, gy) ==
    [unit EXCEPT !.pos = gy.pos, !.hp = unit.max_hp, !.state = "MARCHING",
                 !.target_id = NoId, !.attack_timer_s = unit.attack_cooldown_s,
                 !.last_hit_by_faction = "NONE", !.wp_index = 0,
                 !.out_of_combat_time_s = 0, !.regen_timer_s = 0,
                 !.heal_timer_s = 0, !.heal_anim_timer_s = 0, !.taunt_timer_s = 0,
                 !.recall_state = "IDLE"]

\* One unit taken off the queue of graveyard g.
\* Lines 984-991: the unit respawns at graveyard target_gy (0: there is none).
RespawnAt(W, unit_id, target_gy) ==
    IF target_gy = 0 THEN [W EXCEPT !.units[unit_id].state = "DEAD"]
    ELSE [W EXCEPT !.units[unit_id] =
             _reset_waypoint_progress(
                 _respawn_unit_at_graveyard([W.units[unit_id] EXCEPT !.remaining_respawns = @ - 1],
                                            W.graveyards[target_gy]))]

RespawnOne(W, g, unit_id) ==
    LET unit == W.units[unit_id]
        gy == W.graveyards[g]
    IN  IF ~unit.respawns THEN W
        ELSE IF unit.remaining_respawns <= 0
        THEN [W EXCEPT !.units[unit_id].state = "DEAD",
                       !.units[unit_id].remaining_respawns = 0]
        ELSE RespawnAt(W, unit_id,
                       IF gy.owner = unit.faction THEN g
                       ELSE _nearest_graveyard(W, unit.faction, gy.pos))

RECURSIVE RespawnQueue(_, _, _, _)
RespawnQueue(W, g, respawn_queue, k) ==
    IF k > Len(respawn_queue) THEN W
    ELSE RespawnQueue(RespawnOne(W, g, respawn_queue[k]), g, respawn_queue, k + 1)

\* Fault seed: the timer runs but the queue is never released.
ProcessGraveyardNoRelease(W, g, dt) ==
    [W EXCEPT !.graveyards[g] =
        _update_graveyard_respawn_progress([W.graveyards[g] EXCEPT !.respawn_timer = @ + dt])]

ProcessGraveyard(W, g, dt) ==
    LET gy == W.graveyards[g]
        timer == gy.respawn_timer + dt
    IN  IF gy.waiting_units = <<>>
        THEN [W EXCEPT !.graveyards[g] = _update_graveyard_respawn_progress(gy)]
        ELSE IF timer < GY_RESPAWN_INTERVAL
        THEN [W EXCEPT !.graveyards[g] =
                 _update_graveyard_respawn_progress([gy EXCEPT !.respawn_timer = timer])]
        ELSE LET released(W2) ==
                     [W2 EXCEPT !.graveyards[g] =
                                    _update_graveyard_respawn_progress(W2.graveyards[g])]
             IN  released(
                     RespawnQueue(
                         [W EXCEPT !.graveyards[g].respawn_timer = timer - GY_RESPAWN_INTERVAL,
                                   !.graveyards[g].waiting_units = <<>>],
                         g, gy.waiting_units, 1))

RECURSIVE _process_respawns(_, _, _)
_process_respawns(W, g, dt) ==
    IF g > Len(W.graveyards) THEN W ELSE _process_respawns(ProcessGraveyard(W, g, dt), g + 1, dt)

(***************************************************************************)
(* Towers and graveyards                                                   *)
(***************************************************************************)
\* Lines 1002-1008: the archer count decides between STANDING and VULNERABLE.
TowerByArchers(tower) ==
    LET t1 == IF tower.state = "VULNERABLE" /\ tower.archers_alive > 0
              THEN [tower EXCEPT !.state = "STANDING", !.occupy_timer = 0] ELSE tower
    IN  IF t1.state = "STANDING" /\ t1.archers_alive = 0
        THEN [t1 EXCEPT !.state = "VULNERABLE", !.occupy_timer = 0] ELSE t1

\* Fault seed: any occupation at all counts as long enough.
TowerCapturedAtOnce(tower) == tower.occupy_timer > 0

\* Line 1014: the occupation has lasted long enough.
TowerCaptured(tower) == tower.occupy_timer >= TOWER_CAPTURE_DURATION_S

\* Fault seed: each tick restarts the count of a VULNERABLE tower (= dt for += dt).
UpdateTowerRestarting(W, ti, dt) ==
    LET t1 == TowerByArchers(W.towers[ti])
        t2 == [t1 EXCEPT !.contested = FALSE, !.occupy_timer = dt]
    IN  IF W.towers[ti].state = "DESTROYED" THEN W
        ELSE IF t1.state # "VULNERABLE" THEN [W EXCEPT !.towers[ti] = t1]
        ELSE IF ~TowerCaptured(t2) THEN [W EXCEPT !.towers[ti] = t2]
        ELSE _update_boss_scaling(
                 _kill_commander_for_tower([W EXCEPT !.towers[ti] = destroy_tower(t2)],
                                           t2.tower_id),
                 t2.faction_owner)

UpdateTower(W, ti, dt) ==
    LET t1 == TowerByArchers(W.towers[ti])
        t2 == [t1 EXCEPT !.contested = FALSE, !.occupy_timer = @ + dt]
    IN  IF W.towers[ti].state = "DESTROYED" THEN W
        ELSE IF t1.state # "VULNERABLE" THEN [W EXCEPT !.towers[ti] = t1]
        ELSE IF ~TowerCaptured(t2) THEN [W EXCEPT !.towers[ti] = t2]
        ELSE _update_boss_scaling(
                 _kill_commander_for_tower([W EXCEPT !.towers[ti] = destroy_tower(t2)],
                                           t2.tower_id),
                 t2.faction_owner)

RECURSIVE _update_tower_states(_, _, _)
_update_tower_states(W, ti, dt) ==
    IF ti > Len(W.towers) THEN W ELSE _update_tower_states(UpdateTower(W, ti, dt), ti + 1, dt)

\* Fault seed: the graveyard goes to an exclusive occupier at once, whatever the
\* progress, and the progress is kept.
UpdateGraveyardAtOnce(W, g, dt) ==
    LET gy == W.graveyards[g]
        count(f) == Cardinality({i \in 1..Len(W.units) :
                        /\ is_alive(W.units[i])
                        /\ W.units[i].unit_type # "TOWER_ARCHER"
                        /\ W.units[i].faction = f
                        /\ Dist2(W.units[i].pos, gy.pos) <= gy.capture_radius * gy.capture_radius})
    IN  IF count("PLAYER") > 0 /\ count("ENEMY") = 0
        THEN [W EXCEPT !.graveyards[g].owner = "PLAYER"]
        ELSE IF count("ENEMY") > 0 /\ count("PLAYER") = 0
        THEN [W EXCEPT !.graveyards[g].owner = "ENEMY"]
        ELSE W

\* Fault seed: a faction counts as the occupier as soon as it has units in the
\* radius, the PLAYER first, whether or not the other faction is there too.
UpdateGraveyardContested(W, g, dt) ==
    LET gy == W.graveyards[g]
        count(f) == Cardinality({i \in 1..Len(W.units) :
                        /\ is_alive(W.units[i])
                        /\ W.units[i].unit_type # "TOWER_ARCHER"
                        /\ W.units[i].faction = f
                        /\ Dist2(W.units[i].pos, gy.pos) <= gy.capture_radius * gy.capture_radius})
        timer(occupier) ==
            IF occupier # "NONE" /\ occupier # gy.owner THEN gy.capture_timer + dt
            ELSE IF gy.capture_timer > 0 /\ occupier = "NONE"
            THEN Max(0, gy.capture_timer - dt * GY_CAPTURE_DECAY_RATE)
            ELSE gy.capture_timer
        held_by(occupier) ==
            IF timer(occupier) >= gy.capture_time_required
            THEN [W EXCEPT !.graveyards[g].owner =
                               IF occupier # "NONE" THEN occupier ELSE gy.owner,
                           !.graveyards[g].capture_timer = 0]
            ELSE [W EXCEPT !.graveyards[g].capture_timer = timer(occupier)]
    IN  held_by(IF count("PLAYER") > 0 THEN "PLAYER"
                ELSE IF count("ENEMY") > 0 THEN "ENEMY"
                ELSE "NONE")

UpdateGraveyard(W, g, dt) ==
    LET gy == W.graveyards[g]
        count(f) == Cardinality({i \in 1..Len(W.units) :
                        /\ is_alive(W.units[i])
                        /\ W.units[i].unit_type # "TOWER_ARCHER"
                        /\ W.units[i].faction = f
                        /\ Dist2(W.units[i].pos, gy.pos) <= gy.capture_radius * gy.capture_radius})
        timer(occupier) ==
            IF occupier # "NONE" /\ occupier # gy.owner THEN gy.capture_timer + dt
            ELSE IF gy.capture_timer > 0 /\ occupier = "NONE"
            THEN Max(0, gy.capture_timer - dt * GY_CAPTURE_DECAY_RATE)
            ELSE gy.capture_timer
        held_by(occupier) ==
            IF timer(occupier) >= gy.capture_time_required
            THEN [W EXCEPT !.graveyards[g].owner =
                               IF occupier # "NONE" THEN occupier ELSE gy.owner,
                           !.graveyards[g].capture_timer = 0]
            ELSE [W EXCEPT !.graveyards[g].capture_timer = timer(occupier)]
    IN  held_by(IF count("PLAYER") > 0 /\ count("ENEMY") = 0 THEN "PLAYER"
                ELSE IF count("ENEMY") > 0 /\ count("PLAYER") = 0 THEN "ENEMY"
                ELSE "NONE")

RECURSIVE _update_graveyards(_, _, _)
_update_graveyards(W, g, dt) ==
    IF g > Len(W.graveyards) THEN W ELSE _update_graveyards(UpdateGraveyard(W, g, dt), g + 1, dt)

(***************************************************************************)
(* update(dt): one tick.                                                   *)
(***************************************************************************)
\* The steps after the clock has advanced, for a game that is not over.
\* Innermost first: the recall channels, the spatial hash, the commanders' targets,
\* the units, the separation, the respawns, the towers, the graveyards.
TickBody(W, dt) ==
    _update_graveyards(
        _update_tower_states(
            _process_respawns(
                _apply_separation(
                    UpdateUnits(
                        _coordinate_commander_targets(_update_spatial(_update_recall(W, dt))),
                        1, dt),
                    1, dt),
                1, dt),
            1, dt),
        1, dt)

\* Fault seed: the early return on game_over is missing.
updateWithoutEarlyReturn(W, dt) == TickBody([W EXCEPT !.time_s = @ + dt], dt)

update(W, dt) ==
    LET W1 == [W EXCEPT !.time_s = @ + dt]
    IN  IF W1.game_over THEN W1 ELSE TickBody(W1, dt)

(***************************************************************************)
(* Purchases                                                               *)
(***************************************************************************)
\* Fault seed: every tower of the faction with a free slot counts, destroyed or not.
_available_tower_archer_slots_in_ruins(W, faction) ==
    {ti \in 1..Len(W.towers) :
        /\ W.towers[ti].faction_owner = faction
        /\ W.towers[ti].archers_alive < ARCHERS_PER_TOWER}

_available_tower_archer_slots(W, faction) ==
    {ti \in 1..Len(W.towers) :
        /\ W.towers[ti].faction_owner = faction
        /\ W.towers[ti].state # "DESTROYED"
        /\ W.towers[ti].archers_alive < ARCHERS_PER_TOWER}

\* _purchase_archer: [W, ok].  The map has one tower per faction, so the order by
\* (archers_alive, tower_id) is the order by archers_alive, then list position.
_purchase_archer(W, faction) ==
    LET candidates == _available_tower_archer_slots(W, faction)
        key(ti) == W.towers[ti].archers_alive
    IN  IF candidates = {} THEN [W |-> W, ok |-> FALSE]
        ELSE LET target == CHOOSE a \in candidates : \A b \in candidates :
                              key(a) < key(b) \/ (key(a) = key(b) /\ a <= b)
             IN  [W |-> _spawn_archer_for_tower(W, target, NoPos), ok |-> TRUE]

\* Fault seed: the cost is deducted before the archer slot is looked for.
purchase_unit_charging_first(W, faction, unit_type, lane) ==
    LET cost == UNIT_STATS(unit_type).cost
        W0 == [W EXCEPT !.gold[faction] = @ - cost]
    IN  IF W.gold[faction] < cost THEN [W |-> W, ok |-> FALSE]
        ELSE IF unit_type = "ARCHER"
        THEN LET r == _purchase_archer(W0, faction)
             IN  IF ~r.ok THEN [W |-> W0, ok |-> FALSE] ELSE [W |-> r.W, ok |-> TRUE]
        ELSE LET chosen_lane == IF lane # "NONE" THEN lane
                                ELSE Lanes[(W.lane_purchase_index % Len(Lanes)) + 1]
                 W1 == IF lane # "NONE" THEN W0
                       ELSE [W0 EXCEPT !.lane_purchase_index = @ + 1]
             IN  [W |-> spawn_unit(W1, faction, unit_type, chosen_lane, NoPos), ok |-> TRUE]

\* Fault seed: the purse is not looked at.
purchase_unit_on_credit(W, faction, unit_type, lane) ==
    LET cost == UNIT_STATS(unit_type).cost
        archer_bought(r) ==
            IF ~r.ok THEN [W |-> W, ok |-> FALSE]
            ELSE [W |-> [r.W EXCEPT !.gold[faction] = @ - cost], ok |-> TRUE]
        chosen_lane == IF lane # "NONE" THEN lane
                       ELSE Lanes[(W.lane_purchase_index % Len(Lanes)) + 1]
        W1 == IF lane # "NONE" THEN W
              ELSE [W EXCEPT !.lane_purchase_index = @ + 1]
    IN  IF unit_type = "ARCHER" THEN archer_bought(_purchase_archer(W, faction))
        ELSE [W |-> spawn_unit([W1 EXCEPT !.gold[faction] = @ - cost],
                               faction, unit_type, chosen_lane, NoPos),
              ok |-> TRUE]

\* purchase_unit(faction, unit_type, lane): [W, ok]; lane "NONE" stands for None.
purchase_unit(W, faction, unit_type, lane) ==
    LET cost == UNIT_STATS(unit_type).cost
        archer_bought(r) ==
            IF ~r.ok THEN [W |-> W, ok |-> FALSE]
            ELSE [W |-> [r.W EXCEPT !.gold[faction] = @ - cost], ok |-> TRUE]
        chosen_lane == IF lane # "NONE" THEN lane
                       ELSE Lanes[(W.lane_purchase_index % Len(Lanes)) + 1]
        W1 == IF lane # "NONE" THEN W
              ELSE [W EXCEPT !.lane_purchase_index = @ + 1]
    IN  IF W.gold[faction] < cost THEN [W |-> W, ok |-> FALSE]
        ELSE IF unit_type = "ARCHER" THEN archer_bought(_purchase_archer(W, faction))
        ELSE [W |-> spawn_unit([W1 EXCEPT !.gold[faction] = @ - cost],
                               faction, unit_type, chosen_lane, NoPos),
              ok |-> TRUE]

(***************************************************************************)
(* units.py: MacroAI, the controller of the ENEMY faction.  Its fields are *)
(* the record ai; the operators return the battlefield and the controller  *)
(* they leave.                                                             *)
(***************************************************************************)
AI_SENSE_INTERVAL == 1 * CS
AI_DECISION_INTERVAL == 5 * CS
AI_MAX_PURCHASES_PER_TICK == 8
\* AI_SPEND_FRACTION_PER_TICK = 0.65, in hundredths.
AI_SPEND_FRACTION_PER_TICK_X100 == 65
AI_PURCHASE_COOLDOWNS == [GRUNT |-> 0, LIEUTENANT |-> 2 * CS, CAVALRY |-> 3 * CS]

\* MacroAI.__init__
MacroAI(W) ==
    [sense_timer |-> 0, decision_timer |-> 0,
     cached_counts |-> [PLAYER |-> 0, ENEMY |-> 0],
     purchase_cooldowns |-> [k \in DOMAIN AI_PURCHASE_COOLDOWNS |-> RECALL_NEVER],
     lane_index |-> 0]

_count_active_units(W) ==
    [f \in {"PLAYER", "ENEMY"} |->
        Cardinality({i \in 1..Len(W.units) :
            /\ is_alive(W.units[i])
            /\ W.units[i].unit_type \notin {"TOWER_ARCHER", "CAPTAIN", "BOSS"}
            /\ W.units[i].faction = f})]

\* Fault seed: the cooldown of the unit type is not looked at.
_can_purchase_anytime(W, ai, unit_type) ==
    W.time_s - ai.purchase_cooldowns[unit_type] >= 0

_can_purchase(W, ai, unit_type) ==
    W.time_s - ai.purchase_cooldowns[unit_type] >= AI_PURCHASE_COOLDOWNS[unit_type]

\* _attempt_purchase: [W, ai, ok].  _pick_lane advances the lane index before the
\* gold is looked at.
_attempt_purchase(W, ai, unit_type) ==
    LET lane_override == Lanes[(ai.lane_index % Len(Lanes)) + 1]
        picked == [ai EXCEPT !.lane_index = @ + 1]
        purchased(r) ==
            IF ~r.ok THEN [W |-> W, ai |-> picked, ok |-> FALSE]
            ELSE [W |-> r.W,
                  ai |-> [picked EXCEPT !.purchase_cooldowns[unit_type] = r.W.time_s],
                  ok |-> TRUE]
    IN  IF ~_can_purchase(W, ai, unit_type) THEN [W |-> W, ai |-> ai, ok |-> FALSE]
        ELSE IF W.gold["ENEMY"] < UNIT_STATS(unit_type).cost
        THEN [W |-> W, ai |-> picked, ok |-> FALSE]
        ELSE purchased(purchase_unit(W, "ENEMY", unit_type, lane_override))

\* The for loop of _decision_tick from position k of the target order: [W, ai,
\* unit_type], unit_type the type bought, "NONE" if no attempt succeeded.
RECURSIVE AttemptInOrder(_, _, _, _)
AttemptInOrder(W, ai, target_order, k) ==
    LET attempted(r) ==
            IF r.ok THEN [W |-> r.W, ai |-> r.ai, unit_type |-> target_order[k]]
            ELSE AttemptInOrder(r.W, r.ai, target_order, k + 1)
    IN  IF k > Len(target_order) THEN [W |-> W, ai |-> ai, unit_type |-> "NONE"]
        ELSE attempted(_attempt_purchase(W, ai, target_order[k]))

\* The condition of the while loop of _decision_tick; max_spend in hundredths.
DecisionLoopGoesOn(purchases, gold_spent, max_spend_x100) ==
    /\ purchases < AI_MAX_PURCHASES_PER_TICK
    /\ 100 * gold_spent <= max_spend_x100

\* The while loop of _decision_tick: [W, ai].
RECURSIVE DecisionLoop(_, _, _, _, _, _)
DecisionLoop(W, ai, target_order, purchases, gold_spent, max_spend_x100) ==
    LET after(r) ==
            IF r.unit_type = "NONE" THEN [W |-> r.W, ai |-> r.ai]
            ELSE DecisionLoop(r.W, r.ai, target_order, purchases + 1,
                              gold_spent + UNIT_STATS(r.unit_type).cost, max_spend_x100)
    IN  IF DecisionLoopGoesOn(purchases, gold_spent, max_spend_x100)
        THEN after(AttemptInOrder(W, ai, target_order, 1))
        ELSE [W |-> W, ai |-> ai]

\* _decision_tick: [W, ai]
_decision_tick(W, ai) ==
    IF W.game_over THEN [W |-> W, ai |-> ai]
    ELSE DecisionLoop(W, ai,
                      IF ai.cached_counts["ENEMY"] < ai.cached_counts["PLAYER"]
                      THEN <<"GRUNT", "LIEUTENANT", "CAVALRY">>
                      ELSE <<"LIEUTENANT", "CAVALRY", "GRUNT">>,
                      0, 0, W.gold["ENEMY"] * AI_SPEND_FRACTION_PER_TICK_X100)

\* _maybe_trigger_recall: [W, ok], ok if a recall was triggered.
_maybe_trigger_recall(W) ==
    LET boss_id == W.boss_units["ENEMY"]
    IN  IF ~can_use_recall(W, "ENEMY") THEN [W |-> W, ok |-> FALSE]
        ELSE IF boss_id = NoId THEN [W |-> W, ok |-> FALSE]
        ELSE IF ~is_alive(W.units[boss_id]) \/ W.units[boss_id].max_hp <= 0
        THEN [W |-> W, ok |-> FALSE]
        ELSE IF 2 * W.units[boss_id].hp <= W.units[boss_id].max_hp
        THEN trigger_recall(W, "ENEMY")
        ELSE [W |-> W, ok |-> FALSE]

\* MacroAI.update(dt): [W, ai, recalled]
MacroAI_update(W, ai, dt) ==
    LET timed == [ai EXCEPT !.sense_timer = @ + dt, !.decision_timer = @ + dt]
        sensed(W1, a) ==
            IF a.sense_timer >= AI_SENSE_INTERVAL
            THEN [a EXCEPT !.cached_counts = _count_active_units(W1), !.sense_timer = 0]
            ELSE a
        decided(r, recalled) ==
            [W |-> r.W, ai |-> [r.ai EXCEPT !.decision_timer = 0], recalled |-> recalled]
        after_recall(r) ==
            IF timed.decision_timer >= AI_DECISION_INTERVAL
            THEN decided(_decision_tick(r.W, sensed(r.W, timed)), r.ok)
            ELSE [W |-> r.W, ai |-> sensed(r.W, timed), recalled |-> r.ok]
    IN  IF W.game_over THEN [W |-> W, ai |-> ai, recalled |-> FALSE]
        ELSE after_recall(_maybe_trigger_recall(W))

(***************************************************************************)
(* The state: the fields of the Battlefield and of the map it owns, and    *)
(* the history variables.                                                  *)
(*   death_log   the deaths _on_unit_death handled in the last operation   *)
(*   scale_log   the rescales of bosses and commanders in the last          *)
(*               operation: the unit, its hp and max_hp before and after   *)
(*   hit_log     the hits dealt in the last operation: attacker, target,   *)
(*               their factions and the state of the target when hit       *)
(*   last        the last operation, its arguments and what it returned    *)
(*   recall_log  per faction, the time_s of each successful trigger_recall *)
(*   used        how many short ticks, long ticks, purchases and recalls   *)
(*               the run has made                                          *)
(* and the MacroAI controller, ai.                                         *)
(***************************************************************************)
VARIABLES units, next_unit_id, time_s, towers, bunkers, graveyards, boss_units,
          commanders_by_tower, gold, kills, recall_cooldowns, recall_channels,
          game_over, winner, lane_purchase_index, spatial,
          death_log, scale_log, hit_log, last, recall_log, used, ai

vars == <<units, next_unit_id, time_s, towers, bunkers, graveyards, boss_units,
          commanders_by_tower, gold, kills, recall_cooldowns, recall_channels,
          game_over, winner, lane_purchase_index, spatial,
          death_log, scale_log, hit_log, last, recall_log, used, ai>>

\* The battlefield as the operators take it; each operation starts with an empty log.
World ==
    [units |-> units, next_unit_id |-> next_unit_id, time_s |-> time_s,
     towers |-> towers, bunkers |-> bunkers, graveyards |-> graveyards,
     boss_units |-> boss_units, commanders_by_tower |-> commanders_by_tower,
     gold |-> gold, kills |-> kills, recall_cooldowns |-> recall_cooldowns,
     recall_channels |-> recall_channels, game_over |-> game_over, winner |-> winner,
     lane_purchase_index |-> lane_purchase_index, spatial |-> spatial,
     death_log |-> <<>>, scale_log |-> <<>>, hit_log |-> <<>>]

Becomes(W) ==
    /\ units' = W.units
    /\ next_unit_id' = W.next_unit_id
    /\ time_s' = W.time_s
    /\ towers' = W.towers
    /\ bunkers' = W.bunkers
    /\ graveyards' = W.graveyards
    /\ boss_units' = W.boss_units
    /\ commanders_by_tower' = W.commanders_by_tower
    /\ gold' = W.gold
    /\ kills' = W.kills
    /\ recall_cooldowns' = W.recall_cooldowns
    /\ recall_channels' = W.recall_channels
    /\ game_over' = W.game_over
    /\ winner' = W.winner
    /\ lane_purchase_index' = W.lane_purchase_index
    /\ spatial' = W.spatial
    /\ death_log' = W.death_log
    /\ scale_log' = W.scale_log
    /\ hit_log' = W.hit_log

(***************************************************************************)
(* Bounds of the exploration                                               *)
(***************************************************************************)
\* At most MaxTicks short ticks and MaxTicks long ticks in a run.
MaxTicks == 2
\* At most MaxPurchases purchase_unit calls and MaxRecalls trigger_recall calls.
MaxPurchases == MaxTicks \div 2
MaxRecalls == MaxTicks \div 2

\* A frame-sized step and a step as long as the respawn interval.
ShortDt == CS \div 2
LongDt == GY_RESPAWN_INTERVAL
DtChoices == {ShortDt, LongDt}

\* purchase_unit's arguments: <<faction, unit_type, lane>>, lane "NONE" for None.
PurchaseChoices ==
    { <<"PLAYER", "GRUNT", "NONE">>, <<"PLAYER", "ARCHER", "NONE">>,
      <<"PLAYER", "CAVALRY", "EAST">>, <<"ENEMY", "GRUNT", "NONE">>,
      <<"ENEMY", "ARCHER", "NONE">> }

(***************************************************************************)
(* The initial state: a battle five minutes in, built from the constructed *)
(* battlefield by the program's own spawn_unit and the effects of earlier  *)
(* fights.                                                                 *)
(*   - The PLAYER tower has lost all six archers and has been VULNERABLE   *)
(*     for 150 s; an ENEMY lieutenant (24) stands next to it.              *)
(*   - The ENEMY tower has one archer (12) left, at 6 hp, under attack by  *)
(*     a PLAYER cavalry (19).                                              *)
(*   - The ENEMY boss (16) is down to 2 hp and fights a PLAYER grunt (20)  *)
(*     that strikes in a second.                                           *)
(*   - At the central graveyard a PLAYER lieutenant (21) fights an ENEMY   *)
(*     grunt (23) that has 5 hp left.                                      *)
(*   - A PLAYER grunt (22) waits in the queue of GY_S_HOME, half a second  *)
(*     from release.                                                       *)
(*   - The ENEMY faction triggered a recall half a second ago: its lane    *)
(*     units (23, 24) and its commander (18) are channeling.               *)
(***************************************************************************)
SnapshotTime == 300 * CS

\* The lane units of the snapshot, placed by spawn_unit(faction, unit_type, lane, pos).
SnapshotSpawns ==
    << [faction |-> "PLAYER", unit_type |-> "CAVALRY", lane |-> "WEST", pos |-> <<950, 936>>],
       [faction |-> "PLAYER", unit_type |-> "GRUNT", lane |-> "CENTER", pos |-> <<1500, 228>>],
       [faction |-> "PLAYER", unit_type |-> "LIEUTENANT", lane |-> "CENTER",
        pos |-> <<1500, 2110>>],
       [faction |-> "PLAYER", unit_type |-> "GRUNT", lane |-> "CENTER", pos |-> <<1500, 2130>>],
       [faction |-> "ENEMY", unit_type |-> "GRUNT", lane |-> "CENTER", pos |-> <<1500, 2090>>],
       [faction |-> "ENEMY", unit_type |-> "LIEUTENANT", lane |-> "WEST",
        pos |-> <<950, 3340>>] >>

RECURSIVE SpawnAll(_, _, _)
SpawnAll(W, spawns, k) ==
    IF k > Len(spawns) THEN W
    ELSE SpawnAll(spawn_unit(W, spawns[k].faction, spawns[k].unit_type, spawns[k].lane,
                             spawns[k].pos), spawns, k + 1)

\* What the earlier fights left of unit i.
SnapshotUnit(u) ==
    IF u.unit_id \in 1..11
    THEN [u EXCEPT !.state = "DEAD", !.hp = 0,
                   !.last_hit_by_faction = _enemy_faction(u.faction)]
    ELSE IF u.unit_id = 12
    THEN [u EXCEPT !.hp = 6 * HP, !.target_id = 19, !.last_hit_by_faction = "PLAYER"]
    ELSE IF u.unit_id = 16
    THEN [u EXCEPT !.hp = 2 * HP, !.target_id = 20, !.last_hit_by_faction = "PLAYER"]
    ELSE IF u.unit_id = 19
    THEN [u EXCEPT !.hp = 31 * HP, !.target_id = 12, !.attack_timer_s = ShortDt,
                   !.last_hit_by_faction = "ENEMY", !.remaining_respawns = 9]
    ELSE IF u.unit_id = 20
    THEN [u EXCEPT !.target_id = 16, !.attack_timer_s = 2 * ShortDt,
                   !.remaining_respawns = 2]
    ELSE IF u.unit_id = 21
    THEN [u EXCEPT !.target_id = 23, !.attack_timer_s = ShortDt]
    ELSE IF u.unit_id = 22
    THEN [u EXCEPT !.state = "RESPAWNING", !.hp = 0, !.last_hit_by_faction = "ENEMY"]
    ELSE IF u.unit_id = 23
    THEN [u EXCEPT !.hp = 5 * HP, !.last_hit_by_faction = "PLAYER",
                   !.recall_state = "CHANNELING"]
    ELSE IF u.unit_id \in {18, 24}
    THEN [u EXCEPT !.recall_state = "CHANNELING"]
    ELSE u

Snapshot ==
    LET after_fights(W1) ==
            [W1 EXCEPT
                  !.units = [i \in 1..Len(W1.units) |-> SnapshotUnit(W1.units[i])],
                  !.time_s = SnapshotTime,
                  !.towers[1] = [W1.towers[1] EXCEPT
                                    !.state = "VULNERABLE", !.archers_alive = 0,
                                    !.occupy_timer = 150 * CS],
                  !.towers[2] = [W1.towers[2] EXCEPT !.archers_alive = 1],
                  !.graveyards[1] = [W1.graveyards[1] EXCEPT
                                        !.waiting_units = <<22>>,
                                        !.respawn_interval = GY_RESPAWN_INTERVAL,
                                        !.respawn_timer = GY_RESPAWN_INTERVAL - ShortDt],
                  !.gold = [PLAYER |-> 30, ENEMY |-> 12],
                  !.kills = [PLAYER |-> 5, ENEMY |-> 7],
                  !.recall_cooldowns = [PLAYER |-> RECALL_NEVER,
                                        ENEMY |-> SnapshotTime - ShortDt],
                  !.recall_channels = [PLAYER |-> NoChannel,
                                       ENEMY |-> [active |-> TRUE,
                                                  remaining |-> RECALL_CHANNEL_DURATION_S - ShortDt,
                                                  units |-> <<18, 23, 24>>]],
                  !.lane_purchase_index = 1]
    IN  _update_spatial(after_fights(SpawnAll(NewBattlefield, SnapshotSpawns, 1)))

\* The state holds the battlefield W.
Holds(W) ==
    /\ units = W.units
    /\ next_unit_id = W.next_unit_id
    /\ time_s = W.time_s
    /\ towers = W.towers
    /\ bunkers = W.bunkers
    /\ graveyards = W.graveyards
    /\ boss_units = W.boss_units
    /\ commanders_by_tower = W.commanders_by_tower
    /\ gold = W.gold
    /\ kills = W.kills
    /\ recall_cooldowns = W.recall_cooldowns
    /\ recall_channels = W.recall_channels
    /\ game_over = W.game_over
    /\ winner = W.winner
    /\ lane_purchase_index = W.lane_purchase_index
    /\ spatial = W.spatial

Init ==
    /\ Holds(Snapshot)
    /\ death_log = <<>>
    /\ scale_log = <<>>
    /\ hit_log = <<>>
    /\ last = [op |-> "init", faction |-> "NONE", unit_type |-> "NONE", lane |-> "NONE",
               dt |-> 0, ok |-> TRUE]
    /\ recall_log = [PLAYER |-> <<>>, ENEMY |-> <<SnapshotTime - ShortDt>>]
    /\ used = [short |-> 0, long |-> 0, zero |-> 0, purchase |-> 0, recall |-> 0, ai |-> 0]
    /\ ai = MacroAI(Snapshot)

(***************************************************************************)
(* Actions: one per operation of the command surface.                      *)
(***************************************************************************)
NoArgs == [op |-> "init", faction |-> "NONE", unit_type |-> "NONE", lane |-> "NONE",
           dt |-> 0, ok |-> TRUE]

\* battlefield.update(dt)
Update(dt) ==
    /\ Becomes(update(World, dt))
    /\ last' = [NoArgs EXCEPT !.op = "update", !.dt = dt]
    /\ recall_log' = recall_log
    /\ ai' = ai

ShortTick ==
    /\ used.short < MaxTicks
    /\ Update(ShortDt)
    /\ used' = [used EXCEPT !.short = @ + 1]

LongTick ==
    /\ used.long < MaxTicks
    /\ Update(LongDt)
    /\ used' = [used EXCEPT !.long = @ + 1]

\* battlefield.purchase_unit(faction, unit_type, lane)
Purchase ==
    /\ used.purchase < MaxPurchases
    /\ \E c \in PurchaseChoices :
          LET returns(r) ==
                  /\ Becomes(r.W)
                  /\ last' = [NoArgs EXCEPT !.op = "purchase_unit", !.faction = c[1],
                                             !.unit_type = c[2], !.lane = c[3], !.ok = r.ok]
          IN  returns(purchase_unit(World, c[1], c[2], c[3]))
    /\ recall_log' = recall_log
    /\ ai' = ai
    /\ used' = [used EXCEPT !.purchase = @ + 1]

\* battlefield.trigger_recall(faction)
TriggerRecall ==
    /\ used.recall < MaxRecalls
    /\ \E f \in Factions :
          LET returns(r) ==
                  /\ Becomes(r.W)
                  /\ last' = [NoArgs EXCEPT !.op = "trigger_recall", !.faction = f,
                                             !.ok = r.ok]
                  /\ recall_log' = IF r.ok THEN [recall_log EXCEPT ![f] = Append(@, time_s)]
                                   ELSE recall_log
          IN  returns(trigger_recall(World, f))
    /\ used' = [used EXCEPT !.recall = @ + 1]
    /\ ai' = ai

Next == ShortTick \/ LongTick \/ Purchase \/ TriggerRecall

Spec == Init /\ [][Next]_vars

\* A long tick, seen through the counter of long ticks alone.  update(dt) has no
\* precondition, so a long tick can be taken exactly when the counter allows one, and
\* the long ticks are the only steps that move the counter.
LongTickStep ==
    /\ used.long < MaxTicks
    /\ used' = [used EXCEPT !.long = @ + 1]

\* The main loop calls update every frame: ticks keep coming.
LiveSpec == Spec /\ WF_used(LongTickStep)

(***************************************************************************)
(* A second battle, later in the war for the south: the enemy has taken    *)
(* the southern home graveyard, its lieutenant has broken off the recall   *)
(* and stands over the wounded captain of the southern bunker, and an      *)
(* earlier raid has left capture progress on the northern home graveyard   *)
(* and on the contested center graveyard.  The PLAYER grunt that fights    *)
(* the enemy boss has used up its respawns and is about to fall.           *)
(***************************************************************************)
LateUnit(u) ==
    IF u.unit_id = 13
    THEN [u EXCEPT !.hp = 4 * HP, !.target_id = 24, !.last_hit_by_faction = "ENEMY"]
    ELSE IF u.unit_id = 16
    THEN [u EXCEPT !.attack_timer_s = 2 * ShortDt]
    ELSE IF u.unit_id = 20
    THEN [u EXCEPT !.hp = 3 * HP, !.last_hit_by_faction = "ENEMY",
                   !.remaining_respawns = 0]
    ELSE IF u.unit_id = 24
    THEN [u EXCEPT !.pos = <<S_BUNKER_CENTER[1], S_BUNKER_CENTER[2] + 16>>,
                   !.target_id = 13, !.attack_timer_s = ShortDt,
                   !.recall_state = "IDLE"]
    ELSE u

LateSnapshot ==
    LET late(W1) ==
            [W1 EXCEPT
                  !.units = [i \in 1..Len(W1.units) |-> LateUnit(W1.units[i])],
                  !.graveyards[1] = [W1.graveyards[1] EXCEPT !.owner = "ENEMY"],
                  !.graveyards[2] = [W1.graveyards[2] EXCEPT !.capture_timer = 2 * CS],
                  !.graveyards[3] = [W1.graveyards[3] EXCEPT !.capture_timer = 3 * CS],
                  !.recall_channels = [W1.recall_channels EXCEPT !.ENEMY.units = <<18, 23>>]]
    IN  _update_spatial(late(Snapshot))

LateInit ==
    /\ Holds(LateSnapshot)
    /\ death_log = <<>>
    /\ scale_log = <<>>
    /\ hit_log = <<>>
    /\ last = NoArgs
    /\ recall_log = [PLAYER |-> <<>>, ENEMY |-> <<SnapshotTime - ShortDt>>]
    /\ used = [short |-> 0, long |-> 0, zero |-> 0, purchase |-> 0, recall |-> 0, ai |-> 0]
    /\ ai = MacroAI(Snapshot)

LateSpec == LateInit /\ [][Next]_vars

(***************************************************************************)
(* The same battle with frames of no duration: update(0), as the main loop *)
(* calls it when the clock has not advanced.                               *)
(***************************************************************************)
MaxZeroTicks == 2

ZeroTick ==
    /\ used.zero < MaxZeroTicks
    /\ Update(0)
    /\ used' = [used EXCEPT !.zero = @ + 1]

\* A healer has joined the cavalry on the west lane.
IdleSnapshot ==
    _update_spatial(spawn_unit(Snapshot, "PLAYER", "HEALER", "WEST", <<950, 980>>))

IdleInit ==
    /\ Holds(IdleSnapshot)
    /\ death_log = <<>>
    /\ scale_log = <<>>
    /\ hit_log = <<>>
    /\ last = NoArgs
    /\ recall_log = [PLAYER |-> <<>>, ENEMY |-> <<SnapshotTime - ShortDt>>]
    /\ used = [short |-> 0, long |-> 0, zero |-> 0, purchase |-> 0, recall |-> 0, ai |-> 0]
    /\ ai = MacroAI(Snapshot)

\* Frames only: no commands arrive.
IdleNext == ShortTick \/ LongTick \/ ZeroTick

IdleSpec == IdleInit /\ [][IdleNext]_vars

(***************************************************************************)
(* The fight at the centre with its details drawn from small sets: where   *)
(* the two enemies stand around the lieutenant and how wounded the enemy   *)
(* lieutenant is.  Besides the frames, the index and the target selection  *)
(* are applied to drawn arguments and their results kept in last.          *)
(***************************************************************************)
\* Around the PLAYER lieutenant at <<1500, 2110>>: two points at the same distance in
\* its cell, one on the southern border of the cell, one in the cell to the west.
ArenaPoints == { <<1500, 2090>>, <<1520, 2110>>, <<1500, 2160>>, <<1439, 2110>> }

ArenaHps == { 3 * HP, 5 * HP, 70 * HP }

\* <<position of unit 23, position of unit 24, hp of unit 24>>
ArenaChoices == {<<1500, 2090>>, <<1500, 2160>>} \X ArenaPoints \X ArenaHps

ArenaUnit(u, a) ==
    IF u.unit_id = 21 THEN [u EXCEPT !.target_id = NoId]
    ELSE IF u.unit_id = 23 THEN [u EXCEPT !.pos = a[1]]
    ELSE IF u.unit_id = 24
    THEN [u EXCEPT !.pos = a[2], !.hp = a[3], !.last_hit_by_faction = "PLAYER"]
    ELSE u

\* An enemy healer stands by the two enemies and a PLAYER bulwark behind the
\* lieutenant; they are units 25 and 26.
ArenaSpawns ==
    << [faction |-> "ENEMY", unit_type |-> "HEALER", lane |-> "CENTER",
        pos |-> <<1510, 2090>>],
       [faction |-> "PLAYER", unit_type |-> "BULWARK", lane |-> "CENTER",
        pos |-> <<1500, 2130>>] >>

Arena(a) ==
    LET drawn(W1) ==
            [W1 EXCEPT !.units = [i \in 1..Len(W1.units) |-> ArenaUnit(W1.units[i], a)]]
    IN  _update_spatial(drawn(SpawnAll(Snapshot, ArenaSpawns, 1)))

ArenaInit ==
    /\ \E a \in ArenaChoices : Holds(Arena(a))
    /\ death_log = <<>>
    /\ scale_log = <<>>
    /\ hit_log = <<>>
    /\ last = NoArgs
    /\ recall_log = [PLAYER |-> <<>>, ENEMY |-> <<SnapshotTime - ShortDt>>]
    /\ used = [short |-> 0, long |-> 0, zero |-> 0, purchase |-> 0, recall |-> 0, ai |-> 0]
    /\ ai = MacroAI(Snapshot)

\* Query points: the lieutenant's place, a cell corner, the map's origin and a point
\* west of the map, at negative coordinates.
ProbePoints == { <<1500, 2110>>, <<1440, 2160>>, <<0, 0>>, <<-1, 2110>> }

ProbeRadii == { 0, 20, 60, 180, 181, 1501 }

\* The index and the selection are looked at between frames.
BetweenFrames == last.op \in {"init", "update"}

\* spatial.query_radius(pos, radius) on the index rebuilt from the units as they are.
Probe ==
    /\ BetweenFrames
    /\ \E pos \in ProbePoints : \E radius \in ProbeRadii :
          last' = [NoArgs EXCEPT !.op = "query_radius"]
                      @@ [pos |-> pos, radius |-> radius,
                          result |-> SpatialHash_query_radius(
                                         SpatialHash_rebuild(World, <<>>, 1), pos, radius)]
    /\ Becomes(World)
    /\ recall_log' = recall_log
    /\ ai' = ai
    /\ used' = used

\* The orders in which the ids of set S can be listed.
RECURSIVE Orders(_)
Orders(S) ==
    IF S = {} THEN { <<>> }
    ELSE UNION { { <<x>> \o o : o \in Orders(S \ {x}) } : x \in S }

\* Lines 877-909: the units that call _select_target in their turn, the living ones
\* that are not channeling, defend no zone and hold no target.
Selectors ==
    {i \in 1..Len(units) :
        /\ is_alive(units[i])
        /\ units[i].recall_state # "CHANNELING"
        /\ ~_elite_aggro_zone(World, units[i]).has
        /\ units[i].target_id = NoId}

\* _select_target(unit) with the candidates of the index listed in a drawn order.
Select ==
    /\ BetweenFrames
    /\ \E i \in Selectors :
          \E candidates \in Orders(query_radius(World, units[i].pos, units[i].aggro_range_px)) :
              last' = [NoArgs EXCEPT !.op = "_select_target"]
                          @@ [unit_id |-> i, candidates |-> candidates,
                              result |-> SelectTargetLoop(World, units[i], candidates, 1, NoId)]
    /\ Becomes(World)
    /\ recall_log' = recall_log
    /\ ai' = ai
    /\ used' = used

\* A frame follows a frame or the start.
ArenaTick == BetweenFrames /\ ShortTick

ArenaNext == ArenaTick \/ Probe \/ Select

ArenaSpec == ArenaInit /\ [][ArenaNext]_vars

(***************************************************************************)
(* The same battle with the ENEMY's controller at work: its treasury is    *)
(* drawn, its timers are half a frame short of their intervals, and its    *)
(* unit counts are those of its last look at the field.                    *)
(***************************************************************************)
\* At most MaxAiUpdates calls of MacroAI.update in a run.
MaxAiUpdates == 2

AiGolds == {10, 65, 100, 200}

AiController(W) ==
    [MacroAI(W) EXCEPT !.sense_timer = AI_SENSE_INTERVAL - ShortDt,
                       !.decision_timer = AI_DECISION_INTERVAL - ShortDt,
                       !.cached_counts = _count_active_units(W)]

AiInit ==
    /\ \E g \in AiGolds : Holds([Snapshot EXCEPT !.gold["ENEMY"] = g])
    /\ death_log = <<>>
    /\ scale_log = <<>>
    /\ hit_log = <<>>
    /\ last = NoArgs
    /\ recall_log = [PLAYER |-> <<>>, ENEMY |-> <<SnapshotTime - ShortDt>>]
    /\ used = [short |-> 0, long |-> 0, zero |-> 0, purchase |-> 0, recall |-> 0, ai |-> 0]
    /\ ai = AiController(Snapshot)

\* ai.update(dt)
AiTick ==
    /\ used.ai < MaxAiUpdates
    /\ \E dt \in DtChoices :
          LET returns(r) ==
                  /\ Becomes(r.W)
                  /\ ai' = r.ai
                  /\ last' = [NoArgs EXCEPT !.op = "ai_update", !.dt = dt, !.ok = r.recalled]
                  /\ recall_log' = IF r.recalled
                                   THEN [recall_log EXCEPT !.ENEMY = Append(@, time_s)]
                                   ELSE recall_log
          IN  returns(MacroAI_update(World, ai, dt))
    /\ used' = [used EXCEPT !.ai = @ + 1]

AiNext == ShortTick \/ LongTick \/ AiTick

AiSpec == AiInit /\ [][AiNext]_vars

(***************************************************************************)
(* The battle of the snapshot half a second before the PLAYER tower falls, *)
(* with the PLAYER boss unhurt, at half of its hp, or left at 1 hp by a    *)
(* raid that has just ended.                                               *)
(***************************************************************************)
ScaleHps == {1 * HP, 4500 * HP, 9000 * HP}

ScaleSnapshot(hp) ==
    LET boss_id == Snapshot.boss_units["PLAYER"]
        boss == Snapshot.units[boss_id]
    IN  [Snapshot EXCEPT
            !.units[boss_id] =
                [boss EXCEPT !.hp = hp,
                             !.last_hit_by_faction = IF hp < boss.max_hp THEN "ENEMY" ELSE @],
            !.towers[1] = [@ EXCEPT !.occupy_timer = TOWER_CAPTURE_DURATION_S - ShortDt]]

ScaleInit ==
    /\ \E hp \in ScaleHps : Holds(ScaleSnapshot(hp))
    /\ death_log = <<>>
    /\ scale_log = <<>>
    /\ hit_log = <<>>
    /\ last = NoArgs
    /\ recall_log = [PLAYER |-> <<>>, ENEMY |-> <<SnapshotTime - ShortDt>>]
    /\ used = [short |-> 0, long |-> 0, zero |-> 0, purchase |-> 0, recall |-> 0, ai |-> 0]
    /\ ai = MacroAI(Snapshot)

ScaleSpec == ScaleInit /\ [][Next]_vars

(***************************************************************************)
(* The battle of the snapshot with one more ENEMY grunt (25): it fell near *)
(* the northern home graveyard 29.5 s ago, before the recall was           *)
(* triggered, and waits there for its release.                             *)
(***************************************************************************)
RecallSpawns ==
    << [faction |-> "ENEMY", unit_type |-> "GRUNT", lane |-> "CENTER",
        pos |-> <<1500, 1000>>] >>

RecallSnapshot ==
    LET fallen(W1) ==
            [W1 EXCEPT
                !.units[Len(W1.units)] =
                    [@ EXCEPT !.state = "RESPAWNING", !.hp = 0,
                              !.last_hit_by_faction = "PLAYER"],
                !.graveyards[3] = [@ EXCEPT
                                      !.waiting_units = <<Len(W1.units)>>,
                                      !.respawn_interval = GY_RESPAWN_INTERVAL,
                                      !.respawn_timer = GY_RESPAWN_INTERVAL - ShortDt]]
    IN  _update_spatial(fallen(SpawnAll(Snapshot, RecallSpawns, 1)))

RecallInit ==
    /\ Holds(RecallSnapshot)
    /\ death_log = <<>>
    /\ scale_log = <<>>
    /\ hit_log = <<>>
    /\ last = NoArgs
    /\ recall_log = [PLAYER |-> <<>>, ENEMY |-> <<SnapshotTime - ShortDt>>]
    /\ used = [short |-> 0, long |-> 0, zero |-> 0, purchase |-> 0, recall |-> 0, ai |-> 0]
    /\ ai = MacroAI(Snapshot)

RecallSpec == RecallInit /\ [][Next]_vars

(***************************************************************************)
(* The keep under attack, on a map with two PLAYER towers (the two rear    *)
(* towers of config.py) and so two PLAYER commanders, units 23 (posted     *)
(* for T_S_E_REAR at <<1420, 3945>>) and 24 (for T_S_W_REAR at             *)
(* <<1580, 3945>>) beside the PLAYER boss, unit 21.  Two ENEMY grunts,     *)
(* units 26 and 27, have reached the keep; where they stand and whether    *)
(* the second one has the boss as its target is drawn.  Besides the        *)
(* frames, the commanders' coordination is applied to the state between    *)
(* frames and its assignment kept in last.                                 *)
(***************************************************************************)
KeepTowers ==
    << Tower("T_S_W_REAR", "PLAYER", <<950, 3300>>),
       Tower("T_S_E_REAR", "PLAYER", <<2050, 3300>>),
       Tower("T_N_W_REAR", "ENEMY", <<950, mirror_y(3300)>>) >>

\* Points of the keep within a grunt's aggro range of the boss at <<1500, 3990>>; the
\* first two are equally far from the commander at <<1420, 3945>>.
KeepPoints == { <<1420, 3900>>, <<1465, 3945>>, <<1580, 3900>>, <<1500, 3860>> }

\* <<position of unit 26, position of unit 27, unit 27 has the boss as its target>>
KeepChoices == {a \in KeepPoints \X KeepPoints \X BOOLEAN : a[1] # a[2]}

KeepSnapshot(a) ==
    LET grunt(pos) == [faction |-> "ENEMY", unit_type |-> "GRUNT", lane |-> "CENTER",
                       pos |-> pos]
        W1 == SpawnAll(Battlefield(KeepTowers), << grunt(a[1]), grunt(a[2]) >>, 1)
        boss_id == W1.boss_units["PLAYER"]
        n == Len(W1.units)
        engaged == [W1 EXCEPT !.units[n - 1].target_id = boss_id,
                              !.units[n].target_id = IF a[3] THEN boss_id ELSE NoId,
                              !.time_s = SnapshotTime]
    IN  _update_spatial(engaged)

KeepInit ==
    /\ \E a \in KeepChoices : Holds(KeepSnapshot(a))
    /\ death_log = <<>>
    /\ scale_log = <<>>
    /\ hit_log = <<>>
    /\ last = NoArgs
    /\ recall_log = [PLAYER |-> <<>>, ENEMY |-> <<>>]
    /\ used = [short |-> 0, long |-> 0, zero |-> 0, purchase |-> 0, recall |-> 0, ai |-> 0]
    /\ ai = MacroAI(Snapshot)

\* The living commanders of the faction.
CommandersOf(W, faction) ==
    {c \in {W.commanders_by_tower[t] : t \in DOMAIN W.commanders_by_tower} :
        is_alive(W.units[c]) /\ W.units[c].faction = faction}

\* _coordinate_commander_targets() on the units as they are: result[c] is the target
\* the commander c holds after it.
Coordinate ==
    /\ BetweenFrames
    /\ LET commanders == CommandersOf(World, "PLAYER") \cup CommandersOf(World, "ENEMY")
           after == _coordinate_commander_targets(World)
       IN  last' = [NoArgs EXCEPT !.op = "_coordinate_commander_targets"]
                       @@ [result |-> [c \in commanders |-> after.units[c].target_id]]
    /\ Becomes(World)
    /\ recall_log' = recall_log
    /\ ai' = ai
    /\ used' = used

KeepTick == BetweenFrames /\ ShortTick

KeepNext == KeepTick \/ Coordinate

KeepSpec == KeepInit /\ [][KeepNext]_vars

(***************************************************************************)
(* A PLAYER healer behind the wounded cavalry (unit 19 at <<950, 936>>,    *)
(* 31 hp) on the west lane, at a drawn distance: 44 px, exactly            *)
(* HEALER_HEAL_RADIUS_PX, one pixel more, and 264 px, in the next cell of  *)
(* the index.  Besides the frames, the healer's update is applied to the   *)
(* state between frames and the hp it leaves kept in last.                 *)
(***************************************************************************)
HealPoints == { <<950, 980>>, <<950, 1056>>, <<950, 1057>>, <<950, 1200>> }

HealSnapshot(pos) == _update_spatial(spawn_unit(Snapshot, "PLAYER", "HEALER", "WEST", pos))

HealInit ==
    /\ \E pos \in HealPoints : Holds(HealSnapshot(pos))
    /\ death_log = <<>>
    /\ scale_log = <<>>
    /\ hit_log = <<>>
    /\ last = NoArgs
    /\ recall_log = [PLAYER |-> <<>>, ENEMY |-> <<SnapshotTime - ShortDt>>]
    /\ used = [short |-> 0, long |-> 0, zero |-> 0, purchase |-> 0, recall |-> 0, ai |-> 0]
    /\ ai = MacroAI(Snapshot)

\* Lines 877-884: the units whose turn reaches _update_healer.
Healers ==
    {i \in 1..Len(units) :
        /\ is_alive(units[i])
        /\ units[i].recall_state # "CHANNELING"
        /\ units[i].unit_type = "HEALER"}

\* _update_healer(unit, dt) on the units as they are: hp[i] is the hp of unit i after
\* it, fired tells whether the heal was due.
Heal ==
    /\ BetweenFrames
    /\ \E id \in Healers : \E dt \in {ShortDt, HEALER_HEAL_COOLDOWN_S} :
          LET after == _update_healer(World, id, dt)
          IN  last' = [NoArgs EXCEPT !.op = "_update_healer", !.dt = dt]
                          @@ [unit_id |-> id,
                              fired |-> units[id].heal_timer_s + dt >= HEALER_HEAL_COOLDOWN_S,
                              hp |-> [i \in 1..Len(units) |-> after.units[i].hp]]
    /\ Becomes(World)
    /\ recall_log' = recall_log
    /\ ai' = ai
    /\ used' = used

\* A frame follows a frame or the start.
HealShortTick == BetweenFrames /\ ShortTick

HealLongTick == BetweenFrames /\ LongTick

HealNext == HealShortTick \/ HealLongTick \/ Heal

HealSpec == HealInit /\ [][HealNext]_vars

(***************************************************************************)
(* The battle with the ENEMY's controller running beside the commands:     *)
(* frames of half a second, purchases, recalls and calls of the controller *)
(* in any order.                                                           *)
(***************************************************************************)
CommandNext == ShortTick \/ Purchase \/ TriggerRecall \/ AiTick

CommandSpec == Init /\ [][CommandNext]_vars

(***************************************************************************)
(* The battle of the snapshot with both bosses near their end: an ENEMY    *)
(* lieutenant, unit 25, stands at the PLAYER boss (unit 15) and has it as  *)
(* its target, as the PLAYER grunt 20 has the ENEMY boss (unit 16, 2 hp).  *)
(* What the PLAYER boss has left and how far the lieutenant's attack is    *)
(* from firing is drawn.                                                   *)
(***************************************************************************)
\* <<hp of the PLAYER boss, attack_timer_s of the lieutenant>>
EndChoices == {8 * HP, 16 * HP, 4500 * HP} \X {ShortDt, 2 * ShortDt}

EndSnapshot(a) ==
    LET W1 == spawn_unit(Snapshot, "ENEMY", "LIEUTENANT", "CENTER", <<1500, 3975>>)
        boss_id == W1.boss_units["PLAYER"]
        n == Len(W1.units)
        engaged == [W1 EXCEPT !.units[n].target_id = boss_id,
                              !.units[n].attack_timer_s = a[2],
                              !.units[boss_id].hp = a[1],
                              !.units[boss_id].last_hit_by_faction = "ENEMY"]
    IN  _update_spatial(engaged)

EndInit ==
    /\ \E a \in EndChoices : Holds(EndSnapshot(a))
    /\ death_log = <<>>
    /\ scale_log = <<>>
    /\ hit_log = <<>>
    /\ last = NoArgs
    /\ recall_log = [PLAYER |-> <<>>, ENEMY |-> <<SnapshotTime - ShortDt>>]
    /\ used = [short |-> 0, long |-> 0, zero |-> 0, purchase |-> 0, recall |-> 0, ai |-> 0]
    /\ ai = MacroAI(Snapshot)

EndSpec == EndInit /\ [][CommandNext]_vars

(***************************************************************************)
(* Properties                                                              *)
(***************************************************************************)
\* The fields of the Battlefield and its map, without the history variables.
progVars == <<units, next_unit_id, time_s, towers, bunkers, graveyards, boss_units,
              commanders_by_tower, gold, kills, recall_cooldowns, recall_channels,
              game_over, winner, lane_purchase_index, spatial>>

UnitIds == 1..Len(units)

\* The largest unit id a run can allocate.
MaxUnitId == Len(Snapshot.units) + MaxPurchases

\* The positions <<g, k>> of all graveyard queues, and the unit id at a position.
QueueEntries ==
    UNION {{<<g, k>> : k \in 1..Len(graveyards[g].waiting_units)} : g \in 1..Len(graveyards)}
QueuedId(e) == graveyards[e[1]].waiting_units[e[2]]

(* C1: after every update(dt) every unit, alive, RESPAWNING or DEAD, has           *)
(* 0 <= hp <= max_hp.  The program breaks it: a lethal hit leaves hp below zero.   *)
C1_HpWithinBounds ==
    last.op = "update" =>
        \A i \in UnitIds : units[i].hp >= 0 /\ units[i].hp <= units[i].max_hp

(* C2: after every update(dt) no MARCHING or DEFENDING unit has hp <= 0: a unit    *)
(* whose hp an attack brought to 0 or below is RESPAWNING or DEAD by the end of    *)
(* the same tick.                                                                  *)
C2_NoLivingUnitAtZeroHp ==
    \A i \in UnitIds : units[i].hp <= 0 => units[i].state \in {"RESPAWNING", "DEAD"}

\* A tick has just killed a unit: its hp is at or below zero and it has left the field.
C2_Witness ==
    /\ last.op = "update"
    /\ \E k \in 1..Len(death_log) :
          /\ units[death_log[k].unit_id].hp <= 0
          /\ units[death_log[k].unit_id].state \in {"RESPAWNING", "DEAD"}

\* The occupy timer a tower has when a tick checks it: a tower that is not yet
\* VULNERABLE starts from zero.
C3_TimerAtCheck(ti) ==
    IF towers[ti].state = "VULNERABLE" THEN towers[ti].occupy_timer ELSE 0

C3_Step(ti) ==
    /\ (towers[ti].state = "STANDING" /\ towers'[ti].state # "STANDING")
           => towers'[ti].archers_alive = 0
    /\ towers'[ti].state = "STANDING" => towers'[ti].archers_alive > 0
    /\ (towers[ti].state # "DESTROYED" /\ towers'[ti].state = "DESTROYED")
           => /\ last'.op = "update"
              /\ C3_TimerAtCheck(ti) + last'.dt >= TOWER_CAPTURE_DURATION_S
    /\ (last'.op = "update" /\ towers'[ti].state = "VULNERABLE")
           => towers'[ti].occupy_timer < TOWER_CAPTURE_DURATION_S

(* C3: a tower leaves STANDING for VULNERABLE if and only if its archers_alive is  *)
(* 0 when checked (no STANDING tower is left with 0 archers, and a tower that      *)
(* stops STANDING has 0), and becomes DESTROYED if and only if its occupy timer    *)
(* has reached TOWER_CAPTURE_DURATION_S in a tick (no tick leaves a VULNERABLE     *)
(* tower with that much time, and nothing else destroys a tower).                  *)
C3_TowerTransitions == [][\A ti \in 1..Len(towers) : C3_Step(ti)]_vars

\* One tower has just lost its last archer and turned VULNERABLE, the other has been
\* occupied long enough and is DESTROYED.
C3_Witness ==
    /\ towers[2].state = "VULNERABLE"
    /\ towers[2].archers_alive = 0
    /\ towers[1].state = "DESTROYED"

\* The state of unit i, "NONE" for an id not yet allocated.
C4_StateOf(i) == IF i <= Len(units) THEN units[i].state ELSE "NONE"

(* C4, as amended: while the game is not over, every unit that is RESPAWNING       *)
(* leaves RESPAWNING (for MARCHING or DEAD) under continued ticks, or the game     *)
(* ends first.  Stated for every state that still has a long tick to come.         *)
C4_RespawnEndsWhileGameRuns ==
    \A i \in 1..MaxUnitId :
        (C4_StateOf(i) = "RESPAWNING" /\ ~game_over /\ used.long < MaxTicks)
        ~> (C4_StateOf(i) \in {"MARCHING", "DEAD"} \/ game_over)

\* A unit that died in the run has been released from the queue and marches again.
C4_Witness ==
    /\ units[20].state = "MARCHING"
    /\ units[20].remaining_respawns = 1
    /\ units[20].pos = GY_S_HOME

(* C4 as claimed: every unit that is RESPAWNING eventually re-enters MARCHING or   *)
(* becomes DEAD under continued ticks.                                             *)
C4_RespawnAlwaysEnds ==
    \A i \in 1..MaxUnitId :
        (C4_StateOf(i) = "RESPAWNING" /\ used.long < MaxTicks)
        ~> (C4_StateOf(i) \in {"MARCHING", "DEAD"})

(* C5: between operations a unit id is at most once in all graveyard queues taken  *)
(* together, and a unit is in a queue if and only if it is RESPAWNING.             *)
C5_QueueMatchesRespawning ==
    /\ \A e1, e2 \in QueueEntries : QueuedId(e1) = QueuedId(e2) => e1 = e2
    /\ \A e \in QueueEntries : QueuedId(e) \in UnitIds
    /\ \A i \in UnitIds :
          units[i].state = "RESPAWNING" <=> \E e \in QueueEntries : QueuedId(e) = i

\* A unit killed by the last operation waits in a queue.
C5_Witness ==
    \E k \in 1..Len(death_log) : \E e \in QueueEntries :
        /\ QueuedId(e) = death_log[k].unit_id
        /\ units[death_log[k].unit_id].state = "RESPAWNING"

\* The deaths of a step that are credited to faction f.
C6_Credited(D, f) == {k \in 1..Len(D) : D[k].killer = f /\ D[k].faction # f}

C6_Step ==
    LET D == death_log'
        reward(f) == SeqSum([k \in 1..Len(D) |->
                                IF k \in C6_Credited(D, f) THEN D[k].reward ELSE 0])
        spent(f) == IF last'.op = "purchase_unit" /\ last'.ok /\ last'.faction = f
                    THEN UNIT_STATS(last'.unit_type).cost ELSE 0
        died(i) == /\ is_alive(units[i])
                   /\ \/ ~is_alive(units'[i])
                      \/ units'[i].remaining_respawns < units[i].remaining_respawns
    IN  /\ \A f \in Factions :
              /\ kills'[f] = kills[f] + Cardinality(C6_Credited(D, f))
              /\ gold'[f] = gold[f] + reward(f) - spent(f)
        /\ \A k1, k2 \in 1..Len(D) : D[k1].unit_id = D[k2].unit_id => k1 = k2
        /\ \A i \in UnitIds : died(i) <=> \E k \in 1..Len(D) : D[k].unit_id = i
        /\ \A k \in 1..Len(D) : D[k].killer \in {"NONE", _enemy_faction(D[k].faction)}

(* C6: in every step each unit death is handled once, and the kill count and the   *)
(* gold of a faction grow by exactly one and by the victim's gold_reward for each  *)
(* death of a unit of the other faction that it hit last; nothing else raises      *)
(* them.                                                                           *)
C6_CreditOncePerDeath == [][C6_Step]_vars

\* A tick with a credited death: the killer's kill count and gold have grown.
C6_Witness ==
    /\ last.op = "update"
    /\ \E k \in 1..Len(death_log) :
          /\ death_log[k].killer = "PLAYER"
          /\ death_log[k].faction = "ENEMY"
          /\ death_log[k].reward > 0
    /\ kills["PLAYER"] > Snapshot.kills["PLAYER"]

(* C7: update(dt) called with game_over already true advances time_s by dt and     *)
(* changes nothing else.                                                           *)
C7_NoOpAfterGameOver ==
    [][(game_over /\ last'.op = "update")
          => /\ time_s' = time_s + last'.dt
             /\ UNCHANGED <<units, next_unit_id, towers, bunkers, graveyards, boss_units,
                            commanders_by_tower, gold, kills, recall_cooldowns,
                            recall_channels, game_over, winner, lane_purchase_index,
                            spatial>>]_vars

\* The game is over and the last operation was a tick in which nothing died: a tick
\* made after the one that killed the boss.
C7_Witness ==
    /\ game_over
    /\ last.op = "update"
    /\ death_log = <<>>
    /\ time_s > SnapshotTime + ShortDt

C8_BossDead(f) == ~is_alive(units[boss_units[f]])

(* C8: game_over is true exactly when a boss is dead, the winner is then the       *)
(* faction opposing a dead boss, and while both bosses are alive game_over is      *)
(* false and winner is unset.                                                      *)
C8_GameOverIffBossDead ==
    /\ game_over <=> \E f \in Factions : C8_BossDead(f)
    /\ game_over => winner \in Factions /\ C8_BossDead(_enemy_faction(winner))
    /\ ~game_over => winner = "NONE"

\* The ENEMY boss has died in the last tick and PLAYER has won.
C8_Witness ==
    /\ game_over
    /\ winner = "PLAYER"
    /\ \E k \in 1..Len(death_log) : death_log[k].unit_id = boss_units["ENEMY"]

C9_NoFreeSlot(f) ==
    ~\E ti \in 1..Len(towers) :
        /\ towers[ti].faction_owner = f
        /\ towers[ti].state # "DESTROYED"
        /\ towers[ti].archers_alive < ARCHERS_PER_TOWER

C9_Step ==
    last'.op = "purchase_unit" =>
        LET f == last'.faction
            cost == UNIT_STATS(last'.unit_type).cost
        IN  IF gold[f] < cost \/ (last'.unit_type = "ARCHER" /\ C9_NoFreeSlot(f))
            THEN ~last'.ok /\ UNCHANGED progVars
            ELSE /\ last'.ok
                 /\ gold' = [gold EXCEPT ![f] = @ - cost]
                 /\ Len(units') = Len(units) + 1
                 /\ \A i \in UnitIds : units'[i] = units[i]
                 /\ units'[Len(units')].faction = f
                 /\ units'[Len(units')].unit_id = next_unit_id
                 /\ next_unit_id' = next_unit_id + 1
                 /\ UNCHANGED <<time_s, kills, game_over, winner>>

(* C9: purchase_unit returns false and changes nothing when the faction's gold is  *)
(* below the cost or, for the tower archer, no owned tower that is not destroyed   *)
(* has a free slot; otherwise it returns true, deducts exactly the cost and adds   *)
(* exactly one unit.                                                               *)
C9_PurchaseAllOrNothing == [][C9_Step]_vars

\* An archer purchase refused for want of a slot although the gold was there.
C9_Witness ==
    /\ last.op = "purchase_unit"
    /\ last.unit_type = "ARCHER"
    /\ ~last.ok
    /\ gold[last.faction] >= UNIT_STATS("ARCHER").cost

C10_Spacing(log) ==
    \A f \in Factions : \A k \in 2..Len(log[f]) :
        log[f][k] - log[f][k - 1] >= RECALL_COOLDOWN_S

C10_BlockedAsClaimed(f) ==
    \/ recall_channels[f].active
    \/ time_s - recall_cooldowns[f] < RECALL_COOLDOWN_S

\* What a trigger_recall step does, refused is what else makes the call return false.
C10_Outcome(refused) ==
    last'.op = "trigger_recall" =>
        LET f == last'.faction
        IN  IF C10_BlockedAsClaimed(f) \/ refused
            THEN ~last'.ok /\ UNCHANGED progVars
            ELSE /\ last'.ok
                 /\ recall_channels'[f].active
                 /\ recall_channels'[f].remaining = RECALL_CHANNEL_DURATION_S
                 /\ recall_channels'[_enemy_faction(f)] = recall_channels[_enemy_faction(f)]
                 /\ recall_cooldowns' = [recall_cooldowns EXCEPT ![f] = time_s]

(* C10, as amended: trigger_recall returns false and changes nothing when the      *)
(* faction has an active channel, its cooldown has not elapsed, or the game is     *)
(* over; otherwise it returns true, starts one channel and restarts the cooldown;  *)
(* two successful recalls of a faction are at least RECALL_COOLDOWN_S apart.       *)
C10_RecallGated == [][C10_Outcome(game_over) /\ C10_Spacing(recall_log')]_vars

\* A faction has recalled successfully for the second time.
C10_Witness ==
    /\ last.op = "trigger_recall"
    /\ last.ok
    /\ Len(recall_log[last.faction]) = 2

(* C10 as claimed: only an active channel or a running cooldown makes              *)
(* trigger_recall return false.                                                    *)
C10_RecallGatedAsClaimed ==
    [][C10_Outcome(FALSE) /\ C10_Spacing(recall_log')]_vars

(***************************************************************************)
(* Release from the respawn queue.                                         *)
(***************************************************************************)
\* Unit i is released from a respawn queue in this step, whether it waited there
\* before the step or died and was released within it: a release, and nothing else,
\* takes one of the remaining respawns of a unit that respawns.
C11_Released(i) ==
    /\ last'.op = "update"
    /\ units[i].respawns
    /\ units'[i].remaining_respawns < units[i].remaining_respawns

\* The unit stands, after the step, on graveyard g.
C11_StandsOn(i, g) == units'[i].pos = graveyards[g].pos

C11_Owns(faction) == {g \in 1..Len(graveyards) : graveyards[g].owner = faction}

C11_HomeId(faction) == IF faction = "PLAYER" THEN "GY_S_HOME" ELSE "GY_N_HOME"

C11_Restored(i) ==
    /\ units'[i].state = "MARCHING"
    /\ units'[i].hp = units'[i].max_hp
    /\ units'[i].target_id = NoId

\* C11 as amended: every unit released from a respawn queue re-enters MARCHING with
\* full hp and no target, positioned at a graveyard that its own faction owns at the
\* release or, when the faction owns no graveyard at all, at the faction's home
\* graveyard whoever owns it.
C11_ReleasedAtOwnOrHome ==
    [][\A i \in UnitIds :
          C11_Released(i) =>
              /\ C11_Restored(i)
              /\ \E g \in 1..Len(graveyards) :
                    /\ C11_StandsOn(i, g)
                    /\ \/ g \in C11_Owns(units[i].faction)
                       \/ /\ C11_Owns(units[i].faction) = {}
                          /\ graveyards[g].gy_id = C11_HomeId(units[i].faction)]_vars

\* C11 as claimed: every unit released from a respawn queue re-enters MARCHING with
\* full hp and no target, positioned at a graveyard whose owner at the release is the
\* unit's own faction.
C11_ReleasedAtOwnGraveyard ==
    [][\A i \in UnitIds :
          C11_Released(i) =>
              /\ C11_Restored(i)
              /\ \E g \in C11_Owns(units[i].faction) : C11_StandsOn(i, g)]_vars

\* The enemy grunt that fell at the centre has been released, restored, at the
\* northern home graveyard, which its faction owns.
C11_Witness ==
    /\ last.op = "update"
    /\ units[23].state = "MARCHING"
    /\ units[23].remaining_respawns < UNIT_RESPAWNS("GRUNT")
    /\ units[23].hp = units[23].max_hp
    /\ units[23].pos = graveyards[3].pos
    /\ graveyards[3].owner = "ENEMY"

(***************************************************************************)
(* update(0).                                                              *)
(***************************************************************************)
\* The positions of all units.
C12_Positions == [i \in UnitIds |-> units[i].pos]

\* The persistent timers: per unit, per graveyard, per tower, per recall channel.
C12_Timers ==
    << [i \in UnitIds |->
           <<units[i].attack_timer_s, units[i].heal_timer_s, units[i].heal_anim_timer_s,
             units[i].taunt_timer_s, units[i].regen_timer_s,
             units[i].out_of_combat_time_s, units[i].time_off_lane_s>>],
       [g \in 1..Len(graveyards) |->
           <<graveyards[g].respawn_timer, graveyards[g].capture_timer>>],
       [t \in 1..Len(towers) |-> towers[t].occupy_timer],
       [f \in Factions |->
           IF recall_channels[f] = NoChannel THEN 0 ELSE recall_channels[f].remaining],
       recall_cooldowns >>

C12_ZeroStep == last'.op = "update" /\ last'.dt = 0

C12_AfterZeroStep == last.op = "update" /\ last.dt = 0

\* C12: a call of update(0) that follows a call of update(0) changes no unit position
\* and no persistent timer, so that in these the state after k calls is the state
\* after one.
C12_ZeroTickChangesNothing ==
    [][C12_AfterZeroStep /\ C12_ZeroStep =>
          C12_Positions' = C12_Positions /\ C12_Timers' = C12_Timers]_vars

(***************************************************************************)
(* The attack.                                                             *)
(***************************************************************************)
\* Unit i, when its turn comes, holds a living target within attack range: it is
\* alive and not channeling, the stuck-unit recovery leaves it where it is, and its
\* target is alive, within attack range and, for a unit bound to a zone, in the zone.
C13_HoldsTargetInRange(i, dt) ==
    LET unit == units[i]
    IN  /\ is_alive(unit)
        /\ unit.recall_state # "CHANNELING"
        /\ unit.target_id # NoId
        /\ _recover_stuck_unit(unit, dt).pos = unit.pos
        /\ _recover_stuck_unit(unit, dt).target_id = unit.target_id
        /\ is_alive(units[unit.target_id])
        /\ Dist2(units[unit.target_id].pos, unit.pos)
              <= unit.attack_range_px * unit.attack_range_px
        /\ \/ unit.unit_type \notin {"CAPTAIN", "BOSS", "COMMANDER"}
           \/ CollidePoint(_elite_aggro_zone(World, unit).rect, units[unit.target_id].pos)

\* What the turn of unit i leaves: W2 is the battlefield after it.
C13_Turn(i, dt, W2) ==
    LET unit == units[i]
        target == units[unit.target_id]
        after == W2.units[unit.target_id]
    IN  IF unit.attack_timer_s - dt > 0
        THEN /\ W2.units[i].attack_timer_s = unit.attack_timer_s - dt
             /\ after.hp = target.hp
             /\ after.state = target.state
        ELSE /\ after.hp = target.hp - unit.damage
             /\ W2.units[i].attack_timer_s > 0
             /\ (after.hp <= 0 /\ target.respawns /\ target.remaining_respawns > 0) =>
                    /\ after.state = "RESPAWNING"
                    /\ W2.gold[unit.faction] = gold[unit.faction] + target.gold_reward

\* C13: a unit that holds a target within attack range counts its attack timer down by
\* dt; in the tick in which the timer runs out the target loses exactly the attacker's
\* damage, once, however long the tick; a target brought to hp <= 0 with respawns
\* remaining becomes RESPAWNING and the attacker's faction gains its gold_reward.
C13_AttackTiming ==
    \A i \in UnitIds : \A dt \in DtChoices :
        C13_HoldsTargetInRange(i, dt) => C13_Turn(i, dt, _update_unit(World, i, dt))

\* The lieutenant's blow has just felled the enemy grunt at the centre: the grunt
\* waits for its respawn, the kill is credited to PLAYER, and the lieutenant's attack
\* timer has restarted.
C13_Witness ==
    /\ last.op = "update"
    /\ units[23].state = "RESPAWNING"
    /\ units[23].hp <= 0
    /\ \E k \in 1..Len(death_log) :
          death_log[k].unit_id = 23 /\ death_log[k].killer = "PLAYER"
    /\ units[21].attack_timer_s = units[21].attack_cooldown_s

(***************************************************************************)
(* Ties in the target selection.                                           *)
(***************************************************************************)
\* The state records a target selection: last.unit_id chose last.result from
\* last.candidates, the ids of the index in some order.
C14_Selected == last.op = "_select_target"

\* The candidates that qualify: living enemies within aggro range.
C14_Qualified ==
    LET unit == units[last.unit_id]
    IN  {c \in {last.candidates[k] : k \in 1..Len(last.candidates)} :
            /\ c # unit.unit_id
            /\ is_alive(units[c])
            /\ units[c].faction # unit.faction
            /\ Dist2(units[c].pos, unit.pos) <= unit.aggro_range_px * unit.aggro_range_px}

C14_Dist2(c) == Dist2(units[c].pos, units[last.unit_id].pos)

C15_Elements(list) == {list[k] : k \in 1..Len(list)}

\* How often id i occurs in a list.
C15_Count(list, i) == Cardinality({k \in 1..Len(list) : list[k] = i})

\* The inserted units: _update_spatial inserts the living ones.
C15_Inserted == {i \in UnitIds : is_alive(units[i])}

\* Cell <<qx, qy>> is <<floor(x / cell_size), floor(y / cell_size)>> of the position.
C15_IsFloorCell(cell, pos) ==
    /\ cell[1] * SPATIAL_HASH_CELL_SIZE <= pos[1]
    /\ pos[1] < (cell[1] + 1) * SPATIAL_HASH_CELL_SIZE
    /\ cell[2] * SPATIAL_HASH_CELL_SIZE <= pos[2]
    /\ pos[2] < (cell[2] + 1) * SPATIAL_HASH_CELL_SIZE

C15_StoredOnce(buckets) ==
    \A i \in C15_Inserted :
        \E cell \in DOMAIN buckets :
            /\ C15_IsFloorCell(cell, units[i].pos)
            /\ C15_Count(buckets[cell], i) = 1
            /\ \A other \in DOMAIN buckets \ {cell} : C15_Count(buckets[other], i) = 0

\* C15: query_radius(pos, radius) on the index of the inserted units returns every
\* inserted unit whose distance to pos is at most radius, and returns no unit twice;
\* every inserted unit is stored once, in the cell <<floor(x / cell_size),
\* floor(y / cell_size)>> and in no other.  The ids returned are those the
\* battlefield's own query yields.
C15_QueryRadius ==
    (last.op = "query_radius") =>
        /\ \A i \in C15_Inserted :
              Dist2(units[i].pos, last.pos) <= last.radius * last.radius =>
                  i \in C15_Elements(last.result)
        /\ \A i \in C15_Elements(last.result) : C15_Count(last.result, i) = 1
        /\ C15_StoredOnce(SpatialHash_rebuild(World, <<>>, 1))
        /\ C15_Elements(last.result)
              = query_radius(_update_spatial(World), last.pos, last.radius)

\* A query from west of the map, at a negative coordinate, whose radius just reaches
\* the lieutenant nine cells away; it also returns a unit that is farther away.
C15_Witness ==
    /\ last.op = "query_radius"
    /\ last.pos[1] < 0
    /\ Dist2(units[21].pos, last.pos) = last.radius * last.radius
    /\ 21 \in C15_Elements(last.result)
    /\ \E i \in C15_Elements(last.result) :
          Dist2(units[i].pos, last.pos) > last.radius * last.radius

(***************************************************************************)
(* The index within a tick.                                                *)
(***************************************************************************)
\* The units the index still lists although they have died since it was rebuilt.
C16_Stale == {j \in DOMAIN spatial : spatial[j].inserted /\ ~is_alive(units[j])}

\* The battlefield with the stale entries taken out of the index.
C16_WithoutStale ==
    [World EXCEPT !.spatial = [j \in DOMAIN spatial |->
                                  IF j \in C16_Stale
                                  THEN [inserted |-> FALSE, cell |-> <<0, 0>>]
                                  ELSE spatial[j]]]

\* How often id i occurs in the buckets.
C16_Stored(buckets, i) ==
    LET of(cell) == Cardinality({k \in 1..Len(buckets[cell]) : buckets[cell][k] = i})
    IN  {<<cell, of(cell)>> : cell \in {c \in DOMAIN buckets : of(c) > 0}}

\* The rebuild of this step's update: the index the step leaves is the one built when
\* the recall had been advanced, and it holds the units alive then, each once, in the
\* cell of its position then.
C16_Rebuilt ==
    LET W1 == _update_recall(World, last'.dt)
        buckets == SpatialHash_rebuild(W1, <<>>, 1)
    IN  \A i \in UnitIds :
            /\ spatial'[i].inserted = is_alive(W1.units[i])
            /\ is_alive(W1.units[i]) =>
                  C16_Stored(buckets, i) = {<<spatial'[i].cell, 1>>}
            /\ ~is_alive(W1.units[i]) => C16_Stored(buckets, i) = {}

\* The dead and respawning units are in W2 as they are now in hp and target.
C16_DeadLeftAlone(W2) ==
    \A j \in UnitIds :
        ~is_alive(units[j]) =>
            /\ W2.units[j].hp = units[j].hp
            /\ W2.units[j].target_id = units[j].target_id

\* No use of a stale entry, whatever unit i does next and however long the frame: the
\* target it would select lives, its taunt and its heal leave the targets and the hp
\* of the dead alone, and the separation pushes it as if they were not listed.
C16_NoStaleUse ==
    \A i \in UnitIds : \A dt \in DtChoices :
        is_alive(units[i]) =>
            /\ LET t == IF _elite_aggro_zone(World, units[i]).has
                        THEN _select_elite_target(World, units[i],
                                                  _elite_aggro_zone(World, units[i]).rect)
                        ELSE _select_target(World, units[i])
               IN  t = NoId \/ is_alive(units[t])
            /\ units[i].unit_type \in {"HEALER", "BULWARK"} =>
                  C16_DeadLeftAlone(_update_healer(_update_bulwark(World, i, dt), i, dt))
            /\ units[i].move_speed_px_s > 0 =>
                  SeparatedPos(World, i, dt) = SeparatedPos(C16_WithoutStale, i, dt)

\* C16: the index rebuilt in a tick holds exactly the units alive at the rebuild, each
\* once; and in the state the tick leaves, where the index may list units that have
\* died since, no dead or respawning unit is selected as a target, healed, taunted or
\* counted as a separation neighbour.
C16_IndexOfTheLiving ==
    /\ [][(last'.op = "update" /\ ~game_over) => C16_Rebuilt]_vars
    /\ [](last.op = "update" => C16_NoStaleUse)

\* Enemy lieutenant 24 has fallen in this frame and is still listed in the index: it
\* is the enemy nearest to the PLAYER lieutenant, wounded and within the radius of its
\* faction's healer, whose heal is due within a long frame, within the aggro range of
\* the PLAYER bulwark, and within the separation radius of the healer.
C16_Witness ==
    /\ last.op = "update"
    /\ 24 \in C16_Stale
    /\ \A c \in UnitIds :
          (units[c].faction = "ENEMY" /\ c # 24) =>
              Dist2(units[24].pos, units[21].pos) < Dist2(units[c].pos, units[21].pos)
    /\ is_alive(units[21]) /\ is_alive(units[25]) /\ is_alive(units[26])
    /\ units[24].hp < units[24].max_hp
    /\ Dist2(units[24].pos, units[25].pos) <= HEALER_HEAL_RADIUS_PX * HEALER_HEAL_RADIUS_PX
    /\ units[25].heal_timer_s + LongDt >= HEALER_HEAL_COOLDOWN_S
    /\ Dist2(units[24].pos, units[26].pos)
          <= units[26].aggro_range_px * units[26].aggro_range_px
    /\ Dist2(units[24].pos, units[25].pos) \in
          1..(SEPARATION_RADIUS_PX * SEPARATION_RADIUS_PX)

(***************************************************************************)
(* Destroyed towers.                                                       *)
(***************************************************************************)
\* The living archers that belong to tower ti.
C17_Defenders(ti) ==
    {i \in 1..Len(units) : /\ is_alive(units[i])
                           /\ units[i].unit_type = "TOWER_ARCHER"
                           /\ units[i].structure_id = towers[ti].tower_id}

\* The points of the core of tower ti that lie on its two axes.
C17_CorePoints(ti) ==
    {<<towers[ti].center[1] + d, towers[ti].center[2]>> :
         d \in (0 - towers[ti].core_radius)..towers[ti].core_radius}
    \cup {<<towers[ti].center[1], towers[ti].center[2] + d>> :
         d \in (0 - towers[ti].core_radius)..towers[ti].core_radius}

\* The battlefield as it would be had tower ti never been built.
C17_Without(ti) ==
    [World EXCEPT !.towers = SelectSeq(@, LAMBDA t : t.tower_id # towers[ti].tower_id)]

\* A destroyed tower has no archers, living or counted, and its core blocks nothing:
\* each point of the core is passable exactly if it is passable on the map without
\* the tower, and the centre, which lies in no cliff, rift or wall, is passable.
C17_Ruin(ti) ==
    towers[ti].state = "DESTROYED" =>
        /\ towers[ti].archers_alive = 0
        /\ C17_Defenders(ti) = {}
        /\ is_point_passable(towers[ti].center, World)
        /\ \A p \in C17_CorePoints(ti) :
               is_point_passable(p, World) = is_point_passable(p, C17_Without(ti))

\* C17: a DESTROYED tower stays DESTROYED under every update, purchase_unit and
\* trigger_recall that follows, it never has a defender, and its core does not block
\* passability.
C17_DestroyedForGood ==
    /\ [][\A ti \in 1..Len(towers) :
             towers[ti].state = "DESTROYED" => towers'[ti].state = "DESTROYED"]_vars
    /\ [](\A ti \in 1..Len(towers) : C17_Ruin(ti))

\* The PLAYER tower lies in ruins, its owner has just asked for an archer with the
\* gold to pay for it and was refused, and the ENEMY tower still blocks its core.
C17_Witness ==
    /\ towers[1].state = "DESTROYED"
    /\ last.op = "purchase_unit" /\ last.unit_type = "ARCHER"
    /\ last.faction = towers[1].faction_owner
    /\ gold[last.faction] >= UNIT_STATS("ARCHER").cost
    /\ ~last.ok
    /\ towers[2].state # "DESTROYED"
    /\ ~is_point_passable(towers[2].center, World)

(***************************************************************************)
(* Bunkers and their captains.                                             *)
(***************************************************************************)
\* The captains stationed in bunker bi.
C18_Captains(bi) ==
    {i \in 1..Len(units) : /\ units[i].unit_type = "CAPTAIN"
                           /\ units[i].structure_id = bunkers[bi].bunker_id}

\* Bunker bi has one captain, and is DESTROYED, without walls and without the
\* captain_alive flag, exactly if that captain is not alive; otherwise it is
\* STANDING with its walls and the flag.
C18_BunkerFollowsCaptain(bi) ==
    /\ Cardinality(C18_Captains(bi)) = 1
    /\ \A c \in C18_Captains(bi) :
          IF is_alive(units[c])
          THEN /\ bunkers[bi].state = "STANDING"
               /\ bunkers[bi].captain_alive
               /\ bunkers[bi].wall_rects = build_wall_segments(bunkers[bi].rect)
          ELSE /\ bunkers[bi].state = "DESTROYED"
               /\ ~bunkers[bi].captain_alive
               /\ bunkers[bi].wall_rects = <<>>

\* C18: after every operation a bunker is DESTROYED exactly if its captain is not
\* alive (so it falls in the tick in which the captain dies), a destroyed bunker has
\* no wall segments and captain_alive false, and no step brings a bunker back to
\* STANDING or its captain back to life.
C18_BunkerFallsWithCaptain ==
    /\ [](\A bi \in 1..Len(bunkers) : C18_BunkerFollowsCaptain(bi))
    /\ [][\A bi \in 1..Len(bunkers) :
             bunkers[bi].state = "DESTROYED" => bunkers'[bi].state = "DESTROYED"]_vars

\* The captain of the southern bunker has died in this tick: it is in the tick's
\* death log, and the bunker is rubble while the northern one stands.
C18_Witness ==
    /\ last.op = "update"
    /\ \E k \in 1..Len(death_log) : death_log[k].unit_id \in C18_Captains(1)
    /\ bunkers[1].state = "DESTROYED"
    /\ bunkers[2].state = "STANDING"

(***************************************************************************)
(* Graveyard capture.                                                      *)
(***************************************************************************)
\* The living units of faction f, tower archers aside, within the capture radius of
\* graveyard g.
C19_Inside(g, f) ==
    {i \in 1..Len(units) :
        /\ is_alive(units[i])
        /\ units[i].unit_type # "TOWER_ARCHER"
        /\ units[i].faction = f
        /\ Dist2(units[i].pos, graveyards[g].pos)
              <= graveyards[g].capture_radius * graveyards[g].capture_radius}

\* The faction that alone has units within the capture radius, "NONE" if there is
\* none or both are there.
C19_Occupier(g) ==
    IF C19_Inside(g, "PLAYER") # {} /\ C19_Inside(g, "ENEMY") = {} THEN "PLAYER"
    ELSE IF C19_Inside(g, "ENEMY") # {} /\ C19_Inside(g, "PLAYER") = {} THEN "ENEMY"
    ELSE "NONE"

\* A step that changes the owner of graveyard g is a tick that takes the progress to
\* the required time; it gives the graveyard to the faction that alone stands in the
\* radius as the tick ends, and leaves the progress at zero.
C19_OwnerStep(g) ==
    graveyards'[g].owner # graveyards[g].owner =>
        /\ last'.op = "update"
        /\ graveyards[g].capture_timer + last'.dt >= graveyards[g].capture_time_required
        /\ graveyards'[g].owner = C19_Occupier(g)'
        /\ graveyards'[g].capture_timer = 0

\* C19: the owner of a graveyard changes only in a tick in which the capture
\* progress reaches capture_time_required, the new owner is the exclusive occupier
\* and the progress is reset; the progress is always at least 0 and below
\* capture_time_required.
C19_CaptureAtRequiredTime ==
    /\ [][\A g \in 1..Len(graveyards) : C19_OwnerStep(g)]_vars
    /\ [](\A g \in 1..Len(graveyards) :
             /\ 0 <= graveyards[g].capture_timer
             /\ graveyards[g].capture_timer < graveyards[g].capture_time_required)

\* The southern home graveyard, which the enemy held, has gone back to the PLAYER in
\* this tick, while progress short of the required time stands on another graveyard.
C19_Witness ==
    /\ last.op = "update"
    /\ graveyards[1].owner = "PLAYER"
    /\ graveyards[1].capture_timer = 0
    /\ C19_Occupier(1) = "PLAYER"
    /\ \E g \in 1..Len(graveyards) : graveyards[g].capture_timer > 0

(***************************************************************************)
(* Decay of capture progress.                                              *)
(***************************************************************************)
\* The living units within the capture radius of graveyard g that are of the
\* faction owner, or not of it.
C20_Inside(g, owner, own) ==
    {i \in 1..Len(units) :
        /\ is_alive(units[i])
        /\ (units[i].faction = owner) = own
        /\ Dist2(units[i].pos, graveyards[g].pos)
              <= graveyards[g].capture_radius * graveyards[g].capture_radius}

\* The progress of graveyard g after a decay over dt.
C20_Decayed(g, dt) == Max(0, graveyards[g].capture_timer - dt * GY_CAPTURE_DECAY_RATE)

\* C20: in every tick of a running game that ends with no living unit of a faction
\* other than the owner within the capture radius of a graveyard with positive
\* progress, the progress decays by dt x GY_CAPTURE_DECAY_RATE, floored at 0, also
\* when units of the owner stand in the radius.
C20_DecaysWithoutNonOwner ==
    [][\A g \in 1..Len(graveyards) :
         (/\ last'.op = "update" /\ ~game_over
          /\ graveyards[g].capture_timer > 0
          /\ C20_Inside(g, graveyards[g].owner, FALSE)' = {})
         => graveyards'[g].capture_timer = C20_Decayed(g, last'.dt)]_vars

(***************************************************************************)
(* Growth of capture progress.                                             *)
(***************************************************************************)
\* The factions that have living units, of any type, within the capture radius of
\* graveyard g.
C21_Present(g) ==
    {units[i].faction : i \in {j \in 1..Len(units) :
        /\ is_alive(units[j])
        /\ Dist2(units[j].pos, graveyards[g].pos)
              <= graveyards[g].capture_radius * graveyards[g].capture_radius}}

\* C21: the capture progress of a graveyard grows in a step only if the step is a
\* tick that ends with exactly one faction having living units within the capture
\* radius, a faction that did not own the graveyard; with both factions in the
\* radius the progress does not grow.
C21_GrowsOnlyForOneIntruder ==
    [][\A g \in 1..Len(graveyards) :
         /\ graveyards'[g].capture_timer > graveyards[g].capture_timer
               => /\ last'.op = "update"
                  /\ Cardinality(C21_Present(g)') = 1
                  /\ graveyards[g].owner \notin C21_Present(g)'
         /\ Cardinality(C21_Present(g)') = 2
               => graveyards'[g].capture_timer <= graveyards[g].capture_timer]_vars

\* A tick has ended with progress on one graveyard, where a faction that does not
\* own it stands alone, and with both factions within the radius of another that
\* carries progress from before.
C21_Witness ==
    /\ last.op = "update"
    /\ \E g \in 1..Len(graveyards) :
          /\ graveyards[g].capture_timer > 0
          /\ Cardinality(C21_Present(g)) = 1
          /\ graveyards[g].owner \notin C21_Present(g)
    /\ \E g \in 1..Len(graveyards) :
          /\ graveyards[g].capture_timer > 0
          /\ Cardinality(C21_Present(g)) = 2

(***************************************************************************)
(* The roster: records and ids.                                            *)
(***************************************************************************)
\* Every record of the roster is still there after the step, under its id and with
\* its faction and type, and a record that was DEAD is DEAD.
C22_RecordsKept ==
    /\ Len(units') >= Len(units)
    /\ \A i \in 1..Len(units) :
          /\ units'[i].unit_id = units[i].unit_id
          /\ units'[i].faction = units[i].faction
          /\ units'[i].unit_type = units[i].unit_type
          /\ units[i].state = "DEAD" => units'[i].state = "DEAD"

\* The ids given out in the step are the next ones, above every id given before.
C22_FreshIds ==
    /\ next_unit_id' >= next_unit_id
    /\ \A i \in (Len(units) + 1)..Len(units') :
          /\ units'[i].unit_id >= next_unit_id
          /\ units'[i].unit_id < next_unit_id'
          /\ \A j \in 1..Len(units) : units[j].unit_id < units'[i].unit_id

\* C22: no operation removes a unit record or gives an id a second time; ids grow,
\* no two records share one, and a DEAD unit is DEAD after every operation.
C22_DeadForGood ==
    /\ [][C22_RecordsKept /\ C22_FreshIds]_vars
    /\ [](\A i, j \in 1..Len(units) : units[i].unit_id = units[j].unit_id => i = j)

\* A purchase has just added a unit to a roster that holds a DEAD unit: the new unit
\* has the id that was next, and the dead one keeps its record.
C22_Witness ==
    /\ last.op = "purchase_unit" /\ last.ok
    /\ Len(units) > Len(Snapshot.units)
    /\ units[Len(units)].unit_id = next_unit_id - 1
    /\ units[Len(units)].state = "MARCHING"
    /\ \E i \in 1..Len(units) : units[i].state = "DEAD" /\ units[i].hp <= 0

(***************************************************************************)
(* The respawn counter.                                                    *)
(***************************************************************************)
\* Unit i waits in the queue of some graveyard.
C23_Queued(i) ==
    \E g \in 1..Len(graveyards) :
        \E k \in 1..Len(graveyards[g].waiting_units) : graveyards[g].waiting_units[k] = i

\* Unit i has died in the operation that led to this state.
C23_Died(i) == \E k \in 1..Len(death_log) : death_log[k].unit_id = i

\* One step, for unit i: the counter does not grow and stays at 0 or above; a unit
\* that is not DEAD afterwards has lost at most one respawn; a unit that leaves
\* RESPAWNING for the field pays exactly one; and a unit that dies in the step with
\* no respawn left, or not eligible, is DEAD and in no queue.
C23_Step(i) ==
    /\ units'[i].remaining_respawns <= units[i].remaining_respawns
    /\ units'[i].remaining_respawns >= 0
    /\ units'[i].state # "DEAD" =>
          units[i].remaining_respawns - units'[i].remaining_respawns \in {0, 1}
    /\ (units[i].state = "RESPAWNING" /\ is_alive(units'[i])) =>
          /\ units[i].remaining_respawns >= 1
          /\ units'[i].remaining_respawns = units[i].remaining_respawns - 1
    /\ (is_alive(units[i]) /\ C23_Died(i)'
          /\ (~units[i].respawns \/ units[i].remaining_respawns = 0)) =>
          /\ units'[i].state = "DEAD"
          /\ ~C23_Queued(i)'

\* C23: remaining_respawns never grows and never falls below 0, every return from
\* RESPAWNING to the field costs one respawn (so a unit returns at most as often as
\* it had respawns when spawned), and a unit that dies with none left, or that does
\* not respawn, becomes DEAD without being queued.
C23_RespawnsRunOut ==
    /\ [][\A i \in 1..Len(units) : C23_Step(i)]_vars
    /\ [](\A i \in 1..Len(units) :
             /\ units[i].remaining_respawns >= 0
             /\ units[i].remaining_respawns <= UNIT_RESPAWNS(units[i].unit_type))

\* In this tick the PLAYER grunt that had no respawn left has died and is DEAD, in no
\* queue, while the grunt that waited at the graveyard is back on the field with one
\* respawn fewer than it was spawned with.
C23_Witness ==
    /\ last.op = "update"
    /\ C23_Died(20) /\ units[20].respawns
    /\ units[20].state = "DEAD" /\ ~C23_Queued(20)
    /\ units[22].state = "MARCHING"
    /\ units[22].remaining_respawns = UNIT_RESPAWNS(units[22].unit_type) - 1

(***************************************************************************)
(* The controller's spending.                                              *)
(***************************************************************************)
\* C24: in one call of the controller, and so in one decision tick, the ENEMY's
\* gold falls by at most AI_SPEND_FRACTION_PER_TICK of what it was when the call
\* began.
C24_SpendingCapped ==
    [][last'.op = "ai_update" =>
          100 * (gold["ENEMY"] - gold'["ENEMY"])
             <= AI_SPEND_FRACTION_PER_TICK_X100 * gold["ENEMY"]]_vars

(***************************************************************************)
(* C25: towers without archers fall after TOWER_CAPTURE_DURATION_S         *)
(***************************************************************************)
\* The tower ti is VULNERABLE before the step.
C25_Vulnerable(ti) == towers[ti].state = "VULNERABLE"

\* A tick of the running battle on a VULNERABLE tower: the timer has grown by dt,
\* whoever stands near the tower, and the tower is DESTROYED exactly when the grown
\* timer has reached TOWER_CAPTURE_DURATION_S.
C25_Tick(ti) ==
    LET grown == towers[ti].occupy_timer + last'.dt
    IN  IF grown >= TOWER_CAPTURE_DURATION_S
        THEN towers'[ti].state = "DESTROYED"
        ELSE /\ towers'[ti].state = "VULNERABLE"
             /\ towers'[ti].occupy_timer = grown

C26_Commanders(ti) ==
    { id \in 1..Len(units) : /\ units[id].unit_type = "COMMANDER"
                             /\ units[id].structure_id = towers[ti].tower_id }

\* The tower ti is destroyed in this step.
C26_Falls(ti) == towers[ti].state # "DESTROYED" /\ towers'[ti].state = "DESTROYED"

\* The death handler has handled the unit id in this step.
C26_Handled(id) == \E k \in 1..Len(death_log') : death_log'[k].unit_id = id

C26_Step ==
    \A ti \in 1..Len(towers) :
       C26_Falls(ti) =>
          /\ last'.op = "update"
          /\ towers[ti].tower_id \notin DOMAIN commanders_by_tower'
          /\ \A id \in C26_Commanders(ti) :
                is_alive(units[id]) =>
                   /\ C26_Handled(id)
                   /\ units'[id].hp = 0
                   /\ units'[id].state = "DEAD"

\* C26: after any tick the commander bound to a DESTROYED tower is not alive; it is
\* killed through the death handler in the tick that destroys the tower.
C26_CommanderFallsWithTower ==
    /\ [][C26_Step]_vars
    /\ [](\A ti \in 1..Len(towers) :
             towers[ti].state = "DESTROYED" =>
                \A id \in C26_Commanders(ti) : ~is_alive(units[id]))

\* The PLAYER tower has just been destroyed and its commander has died with it.
C26_Witness ==
    /\ last.op = "update"
    /\ towers[1].state = "DESTROYED"
    /\ C26_Commanders(1) # {}
    /\ \E k \in 1..Len(death_log) : death_log[k].unit_id \in C26_Commanders(1)

(***************************************************************************)
(* C27: bosses and commanders scale with the towers their faction has left *)
(***************************************************************************)
\* 1 + BOSS_HP_PER_TOWER_MULT x N in tenths, N the towers of the faction that are
\* not DESTROYED.
C27_Mult10(f) ==
    10 + BOSS_HP_PER_TOWER_MULT_X10
            * Cardinality({ti \in 1..Len(towers) : /\ towers[ti].faction_owner = f
                                                   /\ towers[ti].state # "DESTROYED"})

C27_Elite ==
    { id \in 1..Len(units) : /\ units[id].unit_type \in {"BOSS", "COMMANDER"}
                             /\ is_alive(units[id]) }

C27_Scaled ==
    \A id \in C27_Elite :
       /\ 10 * units[id].max_hp = units[id].base_max_hp * C27_Mult10(units[id].faction)
       /\ 10 * units[id].damage = units[id].base_damage * C27_Mult10(units[id].faction)

\* hp / max_hp of the rescale e, applied to the new max_hp, in the hundredths of a
\* hit point the model keeps.
C27_SameRatio(e) == MulDiv(e.hp, e.new_max_hp, e.max_hp)

\* The rescale e left hp / max_hp as it was.
C27_RatioKept(e) == e.new_hp = C27_SameRatio(e)

C28_ArcherBought ==
    /\ last'.op = "purchase_unit"
    /\ last'.unit_type = "ARCHER"
    /\ last'.ok

\* The tower the purchase chose: the one that has an archer more after the call.
C28_Chosen(ti) == towers'[ti].archers_alive = towers[ti].archers_alive + 1

\* C28: a successful archer purchase whose chosen tower is VULNERABLE returns the
\* tower to STANDING and sets its occupy timer to 0 in the call itself: the time
\* accumulated towards its destruction is lost.
C28_ArcherResetsTower ==
    [][C28_ArcherBought =>
          /\ \E ti \in 1..Len(towers) : C28_Chosen(ti)
          /\ \A ti \in 1..Len(towers) :
                (C28_Chosen(ti) /\ towers[ti].state = "VULNERABLE") =>
                   /\ towers'[ti].state = "STANDING"
                   /\ towers'[ti].occupy_timer = 0]_vars

\* PLAYER has just bought an archer for its tower, which had been VULNERABLE for
\* 150 s or more: the tower is STANDING with its first archer and a timer of 0.
C28_Witness ==
    /\ last.op = "purchase_unit"
    /\ last.unit_type = "ARCHER"
    /\ last.faction = "PLAYER"
    /\ last.ok
    /\ towers[1].state = "STANDING"
    /\ towers[1].archers_alive = 1
    /\ towers[1].occupy_timer = 0

(***************************************************************************)
(* C29: who a recall channels                                              *)
(***************************************************************************)
\* A living lane unit of the faction f: assigned to a lane, and none of the
\* stationary defenders.
C29_LaneUnitOf(u, f) ==
    /\ is_alive(u)
    /\ u.faction = f
    /\ \E k \in 1..Len(Lanes) : u.lane = Lanes[k]
    /\ u.unit_type \notin {"BOSS", "TOWER_ARCHER", "CAPTAIN", "COMMANDER"}

\* The units a step has put into CHANNELING.
C29_Channeled ==
    { id \in 1..Len(units) : /\ units'[id].recall_state = "CHANNELING"
                             /\ units[id].recall_state # "CHANNELING" }

\* C29: a successful trigger_recall(faction) puts into CHANNELING only living lane
\* units of the faction, and only those are in the channel that teleports its units
\* when it completes: bosses, tower archers, captains and commanders are never
\* channeled and never teleported by a recall.
C29_OnlyLaneUnitsRecalled ==
    [][(last'.op = "trigger_recall" /\ last'.ok) =>
          /\ \A id \in C29_Channeled : C29_LaneUnitOf(units[id], last'.faction)
          /\ \A k \in 1..Len(recall_channels'[last'.faction].units) :
                C29_LaneUnitOf(units[recall_channels'[last'.faction].units[k]],
                               last'.faction)]_vars

(***************************************************************************)
(* C30: a channeling unit is left alone                                    *)
(***************************************************************************)
\* The lane unit id channels before the step and still does after it: the channel
\* has not completed and the unit has not died.
C30_Channels(id) ==
    /\ \E k \in 1..Len(Lanes) : units[id].lane = Lanes[k]
    /\ units[id].recall_state = "CHANNELING"
    /\ units'[id].recall_state = "CHANNELING"
    /\ is_alive(units[id])
    /\ is_alive(units'[id])

C30_Timers(u) ==
    <<u.attack_timer_s, u.out_of_combat_time_s, u.regen_timer_s, u.time_off_lane_s,
      u.heal_timer_s, u.heal_anim_timer_s, u.taunt_timer_s>>

\* C30: while a unit's recall_state is CHANNELING, update(dt) changes neither its
\* position nor its target nor any of its timers, until the channel completes or
\* the unit dies.  Stated for the lane units, the units a recall is meant for.
C30_ChannelingUnitUntouched ==
    [][last'.op = "update" =>
          \A id \in 1..Len(units) :
             C30_Channels(id) =>
                /\ units'[id].pos = units[id].pos
                /\ units'[id].target_id = units[id].target_id
                /\ C30_Timers(units'[id]) = C30_Timers(units[id])]_vars

(***************************************************************************)
(* C31: the end of a recall channel                                        *)
(***************************************************************************)
\* The countdown of the faction f expires in this step, a tick of the running battle.
C31_Expires(f) ==
    /\ last'.op = "update"
    /\ ~game_over
    /\ recall_channels[f].active
    /\ recall_channels[f].remaining - last'.dt <= 0

\* The step has teleported the unit id: _complete_recall alone sets RETURNING.
C31_Teleported(id) ==
    /\ units'[id].recall_state = "RETURNING"
    /\ units[id].recall_state # "RETURNING"

\* C31: when the recall countdown of a faction expires during a tick the channel is
\* cleared, the units teleported to the ring around the boss are units that were
\* still CHANNELING (a unit that died after the recall was triggered is not
\* teleported, even if it has respawned since), every unit that was CHANNELING and
\* lives through the tick is teleported, and afterwards no unit of the faction is
\* CHANNELING.
C31_OnlyChannelingTeleported ==
    [][\A f \in Factions :
          C31_Expires(f) =>
             /\ ~recall_channels'[f].active
             /\ \A id \in 1..Len(units) :
                   units[id].faction = f =>
                      /\ C31_Teleported(id) => units[id].recall_state = "CHANNELING"
                      /\ (units[id].recall_state = "CHANNELING" /\ is_alive(units'[id])
                             /\ units'[id].state = units[id].state)
                            => units'[id].recall_state = "RETURNING"
                      /\ units'[id].recall_state # "CHANNELING"]_vars

(***************************************************************************)
(* C32: the target a regular unit acquires                                 *)
(***************************************************************************)
\* The living enemies of the selecting unit within its aggro range, taken over the
\* whole roster.
C32_Enemies ==
    LET unit == units[last.unit_id]
    IN  {c \in 1..Len(units) :
            /\ c # unit.unit_id
            /\ is_alive(units[c])
            /\ units[c].faction # unit.faction
            /\ Dist2(units[c].pos, unit.pos) <= unit.aggro_range_px * unit.aggro_range_px}

\* Squared distance, current hp and unit id of the enemy c, in the order compared.
C32_Key(c) == <<Dist2(units[c].pos, units[last.unit_id].pos), units[c].hp, c>>

C32_NotAfter(a, b) ==
    \/ C32_Key(a)[1] < C32_Key(b)[1]
    \/ C32_Key(a)[1] = C32_Key(b)[1] /\ C32_Key(a)[2] < C32_Key(b)[2]
    \/ C32_Key(a)[1] = C32_Key(b)[1] /\ C32_Key(a)[2] = C32_Key(b)[2] /\ a <= b

C33_Coordinated == last.op = "_coordinate_commander_targets"

\* The living enemies of the faction that have its boss as their target.
C33_Attackers(f) ==
    {a \in 1..Len(units) :
        /\ is_alive(units[a])
        /\ units[a].faction # f
        /\ units[a].target_id = boss_units[f]}

\* The step coordinates the faction: its boss lives and is under attack.
C33_Defends(f) ==
    /\ boss_units[f] # NoId
    /\ is_alive(units[boss_units[f]])
    /\ C33_Attackers(f) # {}

\* The attackers within the aggro radius of the commander c that no commander of
\* its faction with a lower id holds after the step.
C33_Unclaimed(c) ==
    LET f == units[c].faction
        earlier == {d \in CommandersOf(World, f) : d < c}
    IN  {a \in C33_Attackers(f) :
            /\ Dist2(units[a].pos, units[c].pos)
                   <= units[c].aggro_range_px * units[c].aggro_range_px
            /\ \A d \in earlier : last.result[d] # a}

\* C33: in the coordination step each living commander of a faction, in ascending
\* unit id, is assigned the nearest (ties: the lower unit id) of the enemies that
\* have its faction's boss as their target, lie within its aggro radius and are not
\* claimed by an earlier commander, and keeps its target when there is none; no two
\* commanders of a faction are assigned the same attacker.
C33_NearestUnclaimedAttacker ==
    C33_Coordinated =>
        \A f \in Factions :
            C33_Defends(f) =>
                /\ \A c \in CommandersOf(World, f) :
                      IF C33_Unclaimed(c) = {}
                      THEN last.result[c] = units[c].target_id
                      ELSE /\ last.result[c] \in C33_Unclaimed(c)
                           /\ \A a \in C33_Unclaimed(c) :
                                 \/ Dist2(units[last.result[c]].pos, units[c].pos)
                                        < Dist2(units[a].pos, units[c].pos)
                                 \/ /\ Dist2(units[last.result[c]].pos, units[c].pos)
                                          = Dist2(units[a].pos, units[c].pos)
                                    /\ last.result[c] <= a
                /\ \A c, d \in CommandersOf(World, f) :
                      (c # d /\ last.result[c] \in C33_Attackers(f)
                             /\ last.result[c] # units[c].target_id)
                          => last.result[c] # last.result[d]

(***************************************************************************)
(* C34: who a heal reaches                                                 *)
(***************************************************************************)
\* The state records a healer's update in which the heal fired.
C34_HealFired == last.op = "_update_healer" /\ last.fired

\* The unit i may be healed by the healer last.unit_id: a living unit of its faction,
\* neither boss nor commander, below its max_hp and no farther than
\* HEALER_HEAL_RADIUS_PX from it.
C34_InReach(i) ==
    /\ is_alive(units[i])
    /\ units[i].faction = units[last.unit_id].faction
    /\ units[i].unit_type \notin {"BOSS", "COMMANDER"}
    /\ units[i].hp < units[i].max_hp
    /\ Dist2(units[i].pos, units[last.unit_id].pos)
           <= HEALER_HEAL_RADIUS_PX * HEALER_HEAL_RADIUS_PX

\* C34: when a healer's heal fires, the only units whose hp increases are living
\* non-elite units of its faction with hp < max_hp at most HEALER_HEAL_RADIUS_PX from
\* the healer; each gains HEALER_HEAL_PERCENT of its own max_hp, capped at max_hp.
C34_HealWithinRadius ==
    C34_HealFired =>
        \A i \in 1..Len(units) :
            /\ last.hp[i] > units[i].hp => C34_InReach(i)
            /\ C34_InReach(i) =>
                  last.hp[i] = Min(units[i].max_hp,
                                   units[i].hp
                                       + (units[i].max_hp * HEALER_HEAL_PERCENT_X100) \div 100)

(***************************************************************************)
(* C35: the pace of the controller's purchases                             *)
(***************************************************************************)
\* The units the step has added to the roster.
C35_Added == (Len(units) + 1)..Len(units')

\* How many units of the type the controller has bought in this step.
C35_Bought(unit_type) ==
    Cardinality({i \in C35_Added : units'[i].unit_type = unit_type})

\* C35: the controller's stamp of a unit type is the time of its last successful
\* purchase of that type; a call of the controller buys a type only if at least the
\* type's AI_PURCHASE_COOLDOWNS have passed since the stamp, buys it twice in the
\* same call (at the same simulated time) only if the type has no cooldown, and
\* makes at most AI_MAX_PURCHASES_PER_TICK purchases in one decision tick.
C35_PurchasesPaced ==
    [][last'.op = "ai_update" =>
          /\ Cardinality(C35_Added) <= AI_MAX_PURCHASES_PER_TICK
          /\ \A i \in C35_Added : units'[i].unit_type \in DOMAIN AI_PURCHASE_COOLDOWNS
          /\ \A unit_type \in DOMAIN AI_PURCHASE_COOLDOWNS :
                IF C35_Bought(unit_type) = 0
                THEN ai'.purchase_cooldowns[unit_type] = ai.purchase_cooldowns[unit_type]
                ELSE /\ time_s - ai.purchase_cooldowns[unit_type]
                            >= AI_PURCHASE_COOLDOWNS[unit_type]
                     /\ ai'.purchase_cooldowns[unit_type] = time_s
                     /\ C35_Bought(unit_type) >= 2 => AI_PURCHASE_COOLDOWNS[unit_type] <= 0]_vars

\* The controller's first call has bought AI_MAX_PURCHASES_PER_TICK units, grunts
\* among them, and has gold left for another one.
C35_Witness ==
    /\ last.op = "ai_update"
    /\ used.ai = 1
    /\ Len(units) = Len(Snapshot.units) + AI_MAX_PURCHASES_PER_TICK
    /\ ai.purchase_cooldowns["GRUNT"] = time_s
    /\ units[Len(units)].unit_type = "GRUNT"
    /\ units[Len(units) - 1].unit_type = "GRUNT"
    /\ gold["ENEMY"] >= UNIT_STATS("GRUNT").cost

(***************************************************************************)
(* C36: the defender count of a tower                                      *)
(***************************************************************************)
\* The living tower archers bound to the tower ti.
C36_Garrison(ti) ==
    {i \in 1..Len(units) :
        /\ is_alive(units[i])
        /\ units[i].unit_type = "TOWER_ARCHER"
        /\ units[i].structure_id = towers[ti].tower_id}

\* C36: between operations the archers_alive of each tower is the number of living
\* tower archers bound to it, and lies between 0 and ARCHERS_PER_TOWER.
C36_ArchersCounted ==
    \A ti \in 1..Len(towers) :
        /\ towers[ti].archers_alive = Cardinality(C36_Garrison(ti))
        /\ 0 <= towers[ti].archers_alive
        /\ towers[ti].archers_alive <= ARCHERS_PER_TOWER

\* The last archer of the ENEMY tower has fallen and PLAYER has bought an archer for
\* its own tower: unit 12 is dead and the count of its tower 0, the PLAYER tower
\* counts the one archer that stands by it.
C36_Witness ==
    /\ ~is_alive(units[12])
    /\ towers[2].archers_alive = 0
    /\ towers[1].archers_alive = 1
    /\ Cardinality(C36_Garrison(1)) = 1

(***************************************************************************)
(* C37: who is hit                                                         *)
(***************************************************************************)
\* C37: every hit of the last operation was dealt by a unit to another unit, of the
\* opposing faction, that was alive (neither DEAD nor RESPAWNING) when it was hit;
\* and the last_hit_by_faction of every unit is unset or the opposing faction.
C37_OnlyLivingEnemiesHit ==
    /\ \A k \in 1..Len(hit_log) :
          /\ hit_log[k].attacker # hit_log[k].target
          /\ hit_log[k].target_faction = _enemy_faction(hit_log[k].attacker_faction)
          /\ hit_log[k].target_state \notin {"DEAD", "RESPAWNING"}
    /\ \A i \in 1..Len(units) :
          units[i].last_hit_by_faction \in {"NONE", _enemy_faction(units[i].faction)}

\* In the last tick several hits were dealt, one of them killed its target, and a
\* living unit still holds the fallen unit as its target.
C37_Witness ==
    /\ last.op = "update"
    /\ Len(hit_log) >= 2
    /\ \E k \in 1..Len(hit_log) :
          /\ ~is_alive(units[hit_log[k].target])
          /\ \E i \in 1..Len(units) :
                is_alive(units[i]) /\ units[i].target_id = hit_log[k].target

(***************************************************************************)
(* C38: the purse of a faction                                             *)
(***************************************************************************)
\* What the units the step has added to the roster cost the faction f.
C38_Spent(f) ==
    SeqSum([k \in 1..(Len(units') - Len(units)) |->
               IF units'[Len(units) + k].faction = f
               THEN UNIT_STATS(IF units'[Len(units) + k].unit_type = "TOWER_ARCHER"
                               THEN "ARCHER"
                               ELSE units'[Len(units) + k].unit_type).cost
               ELSE 0])

\* The rewards of the deaths of the step that are credited to the faction f.
C38_Earned(f) ==
    SeqSum([k \in 1..Len(death_log') |->
               IF death_log'[k].killer = f /\ death_log'[k].faction # f
               THEN death_log'[k].reward
               ELSE 0])

\* C38: the gold of a faction is never negative, and a step changes it by the cost
\* of the units the faction has bought in it (a purchase that fails adds no unit and
\* costs nothing) and the rewards of the kills credited to it, and by nothing else;
\* units are bought by purchase_unit and by the controller only, kills are credited
\* in update only.
C38_GoldAccounted ==
    /\ [][\A f \in Factions :
             /\ gold'[f] = gold[f] - C38_Spent(f) + C38_Earned(f)
             /\ C38_Spent(f) > 0 => last'.op \in {"purchase_unit", "ai_update"}
             /\ C38_Earned(f) > 0 => last'.op = "update"
             /\ last'.op = "purchase_unit" =>
                   (last'.ok <=> Len(units') = Len(units) + 1)]_vars
    /\ [](\A f \in Factions : gold[f] >= 0)

\* The controller has spent the ENEMY's gold down to less than a grunt costs, and
\* PLAYER has been credited kills since the snapshot.
C38_Witness ==
    /\ last.op = "ai_update"
    /\ gold["ENEMY"] < UNIT_STATS("GRUNT").cost
    /\ gold["ENEMY"] < Snapshot.gold["ENEMY"]
    /\ gold["PLAYER"] > Snapshot.gold["PLAYER"]

(***************************************************************************)
(* C39: the end of the game is final                                       *)
(***************************************************************************)
\* The deaths of bosses among the deaths of the step, in the order they were handled.
C39_BossDeaths ==
    SelectSeq(death_log', LAMBDA e : e.unit_id \in {boss_units[f] : f \in Factions})

\* C39: once game_over is set the winner stays: a step taken with the game over
\* leaves game_over and winner as they are, and the step that ends the game leaves
\* as winner the faction that won when game_over was set, the one opposing the
\* first boss to die, whatever happens later in that tick.
C39_WinnerFinal ==
    [][/\ game_over => (game_over' /\ winner' = winner)
       /\ (~game_over /\ game_over') =>
             /\ C39_BossDeaths # <<>>
             /\ winner' = _enemy_faction(C39_BossDeaths[1].faction)]_vars


(***************************************************************************)
(* C40: nothing is commanded once the game is over                         *)
(***************************************************************************)
C40_Calls == {"purchase_unit", "trigger_recall", "ai_update", "update"}

\* C40: a call of purchase_unit, trigger_recall, MacroAI.update or update made with
\* game_over true changes no faction's gold, adds no unit and leaves the state of
\* every unit, tower and bunker as it was.
C40_FrozenAfterGameOver ==
    [][(game_over /\ last'.op \in C40_Calls)
          => /\ \A f \in Factions : gold'[f] = gold[f]
             /\ Len(units') = Len(units)
             /\ \A i \in 1..Len(units) : units'[i].state = units[i].state
             /\ \A i \in 1..Len(towers) : towers'[i].state = towers[i].state
             /\ \A i \in 1..Len(bunkers) : bunkers'[i].state = bunkers[i].state]_vars

====
